---- MODULE Spec2Model ----
(***************************************************************************)
(* Model of libhailort's core-op metadata (hef/core_op_metadata.cpp):      *)
(* the LayerInfo mux-tree helpers, ContextMetadata, CoreOpMetadata and     *)
(* CoreOpMetadataPerArch.  Every operation of the source is an action that *)
(* records the call and its result in `ret`; the pure helpers are          *)
(* operators translated statement by statement.                            *)
(***************************************************************************)
EXTENDS Integers, Sequences, FiniteSets, TLC

VARIABLES
    info,                   \* the LayerInfo handed to the static mux helpers
    m_preliminary_context,  \* CoreOpMetadata::m_preliminary_context
    m_dynamic_contexts,     \* CoreOpMetadata::m_dynamic_contexts
    m_sorted_output_names,  \* CoreOpMetadata::m_sorted_output_names
    m_sorted_network_names, \* CoreOpMetadata::m_sorted_network_names
    hailo_net_flow,         \* CoreOpMetadata::m_supported_features.hailo_net_flow
    m_output_vstreams_infos,\* CoreOpMetadata::m_output_vstreams_infos
    m_metadata_per_arch,    \* CoreOpMetadataPerArch::m_metadata_per_arch
    add_log,                \* history: the add_metadata calls made so far, in order
    ret                     \* the last call: its name, its arguments, its result

vars == <<info, m_preliminary_context, m_dynamic_contexts, m_sorted_output_names,
          m_sorted_network_names,
          hailo_net_flow, m_output_vstreams_infos, m_metadata_per_arch, add_log, ret>>

muxVars  == <<info>>
ctxVars  == <<m_preliminary_context, m_dynamic_contexts>>
coreVars == <<m_preliminary_context, m_dynamic_contexts, m_sorted_output_names,
              m_sorted_network_names,
              hailo_net_flow, m_output_vstreams_infos>>
archVars == <<m_metadata_per_arch, add_log>>

-----------------------------------------------------------------------------
(* Generic helpers *)

Range(s) == {s[i] : i \in 1..Len(s)}

RECURSIVE SeqsUpTo(_, _)
SeqsUpTo(S, n) ==
    IF n = 0 THEN {<<>>}
    ELSE LET shorter == SeqsUpTo(S, n - 1)
         IN  shorter \cup {Append(s, x) : s \in {t \in shorter : Len(t) = n - 1}, x \in S}

-----------------------------------------------------------------------------
(* Bounds *)

MaxNodes == 4       \* nodes of the LayerInfo tree given to the mux helpers

-----------------------------------------------------------------------------
(* LayerInfo trees: name, is_mux, predecessor (a sequence of LayerInfo).   *)

LeafNames == {"a", "b"}

RECURSIVE TreesOfSize(_), Forests(_)
\* the ordered forests with exactly k nodes in all
Forests(k) ==
    IF k = 0 THEN {<<>>}
    ELSE UNION {{<<t>> \o f : t \in TreesOfSize(s), f \in Forests(k - s)} : s \in 1..k}
\* the LayerInfo trees with exactly n nodes, every name and is_mux flag
TreesOfSize(n) ==
    {[name |-> nm, is_mux |-> mx, predecessor |-> f] :
        nm \in LeafNames, mx \in BOOLEAN, f \in Forests(n - 1)}

Trees == UNION {TreesOfSize(n) : n \in 1..MaxNodes}

NoLayer == [name |-> "a", is_mux |-> FALSE, predecessor |-> <<>>]

-----------------------------------------------------------------------------
(* static get_demuxes_names_impl / get_demuxes_names / is_edge_under_mux   *)

RECURSIVE get_demuxes_names_impl(_, _), get_demuxes_names_loop(_, _, _)
\* for (auto &pred : info.predecessor) get_demuxes_names_impl(pred, res);
get_demuxes_names_loop(predecessor, i, res) ==
    IF i > Len(predecessor) THEN res
    ELSE get_demuxes_names_loop(predecessor, i + 1,
             get_demuxes_names_impl(predecessor[i], res))
get_demuxes_names_impl(layer, res) ==
    IF ~layer.is_mux THEN Append(res, layer.name)
    ELSE get_demuxes_names_loop(layer.predecessor, 1, res)

RECURSIVE get_demuxes_names_revloop(_, _, _), get_demuxes_names_rev(_, _)
get_demuxes_names_revloop(predecessor, i, res) ==
    IF i < 1 THEN res
    ELSE get_demuxes_names_revloop(predecessor, i - 1,
             get_demuxes_names_rev(predecessor[i], res))
get_demuxes_names_rev(layer, res) ==
    IF ~layer.is_mux THEN Append(res, layer.name)
    ELSE get_demuxes_names_revloop(layer.predecessor, Len(layer.predecessor), res)
\* mutant: the predecessors are walked back to front
get_demuxes_names_backwards(layer) ==
    get_demuxes_names_rev(layer, <<>>)

get_demuxes_names(layer) ==
    get_demuxes_names_impl(layer, <<>>)

RECURSIVE is_edge_under_mux_shallow_loop(_, _, _)
is_edge_under_mux_shallow_loop(layer, i, edge_name) ==
    IF i > Len(layer.predecessor) THEN FALSE
    ELSE IF edge_name = layer.predecessor[i].name THEN TRUE
    ELSE is_edge_under_mux_shallow_loop(layer, i + 1, edge_name)
\* mutant: the loop compares the predecessor's own name and never recurses
is_edge_under_mux_shallow(layer, edge_name) ==
    IF ~layer.is_mux THEN edge_name = layer.name
    ELSE is_edge_under_mux_shallow_loop(layer, 1, edge_name)

\* mutant: the loop returns the verdict of the first predecessor
is_edge_under_mux_first_only(layer, edge_name) ==
    IF ~layer.is_mux THEN edge_name = layer.name
    ELSE IF Len(layer.predecessor) = 0 THEN FALSE
    ELSE edge_name = layer.predecessor[1].name

RECURSIVE is_edge_under_mux_impl(_, _), is_edge_under_mux_loop(_, _, _)
\* for (const auto &pred : info.predecessor) { if (info.is_mux) ... else ... }
is_edge_under_mux_loop(layer, i, edge_name) ==
    IF i > Len(layer.predecessor) THEN FALSE
    ELSE IF layer.is_mux
         THEN IF is_edge_under_mux_impl(layer.predecessor[i], edge_name) THEN TRUE
              ELSE is_edge_under_mux_loop(layer, i + 1, edge_name)
         ELSE IF edge_name = layer.predecessor[i].name THEN TRUE
              ELSE is_edge_under_mux_loop(layer, i + 1, edge_name)
is_edge_under_mux_impl(layer, edge_name) ==
    IF ~layer.is_mux THEN edge_name = layer.name
    ELSE is_edge_under_mux_loop(layer, 1, edge_name)

is_edge_under_mux(layer, edge_name) ==
    is_edge_under_mux_impl(layer, edge_name)

-----------------------------------------------------------------------------
(* Defaults of the state a specification does not exercise *)

EmptyContext ==
    [m_actions                     |-> <<>>,
     m_boundary_input_layers       |-> <<>>,
     m_boundary_output_layers      |-> <<>>,
     m_inter_context_input_layers  |-> <<>>,
     m_inter_context_output_layers |-> <<>>,
     m_ddr_input_layers            |-> <<>>,
     m_ddr_output_layers           |-> <<>>,
     m_config_buffers_info         |-> <<>>]

CoreIdle ==
    /\ m_preliminary_context = EmptyContext
    /\ m_dynamic_contexts = <<>>
    /\ m_sorted_output_names = <<>>
    /\ m_sorted_network_names = <<>>
    /\ hailo_net_flow = FALSE
    /\ m_output_vstreams_infos = <<>>

ArchIdle ==
    /\ m_metadata_per_arch = <<>>
    /\ add_log = <<>>

\* no query has been made since the model was last changed
NoCall == [op |-> "none"]

-----------------------------------------------------------------------------
(* SpecMux: the static mux helpers applied to every bounded LayerInfo tree *)

EdgeNames == LeafNames \cup {"z"}

InitMux ==
    /\ info \in Trees
    /\ CoreIdle
    /\ ArchIdle
    /\ ret = NoCall

CallGetDemuxesNames ==
    /\ ret' = [op |-> "get_demuxes_names", val |-> get_demuxes_names(info)]
    /\ UNCHANGED <<muxVars, coreVars, archVars>>

CallIsEdgeUnderMux ==
    \E edge_name \in EdgeNames :
        /\ ret' = [op |-> "is_edge_under_mux", edge_name |-> edge_name,
                   val |-> is_edge_under_mux(info, edge_name)]
        /\ UNCHANGED <<muxVars, coreVars, archVars>>

NextMux ==
    \/ CallGetDemuxesNames
    \/ CallIsEdgeUnderMux

SpecMux == InitMux /\ [][NextMux]_vars

-----------------------------------------------------------------------------
(* Reference reading of "the non-mux leaves reachable in depth-first,      *)
(* left-to-right predecessor order": positions in the tree are paths of    *)
(* predecessor indices; a reachable leaf is a non-mux node all of whose    *)
(* proper ancestors are mux; depth-first order is the lexicographic order  *)
(* of the paths.                                                           *)

RECURSIVE Paths(_)
Paths(layer) ==
    {<<>>} \cup UNION {{<<i>> \o q : q \in Paths(layer.predecessor[i])} :
                          i \in 1..Len(layer.predecessor)}

RECURSIVE NodeAt(_, _)
NodeAt(layer, p) ==
    IF p = <<>> THEN layer ELSE NodeAt(layer.predecessor[Head(p)], Tail(p))

IsProperPrefix(q, p) == Len(q) < Len(p) /\ SubSeq(p, 1, Len(q)) = q

ReachableLeafPaths(layer) ==
    {p \in Paths(layer) :
        /\ ~NodeAt(layer, p).is_mux
        /\ \A k \in 0..(Len(p) - 1) : NodeAt(layer, SubSeq(p, 1, k)).is_mux}

\* p strictly before q, for two paths neither of which is a prefix of the other
LexLess(p, q) ==
    \E k \in 1..Len(p) :
        /\ k <= Len(q)
        /\ SubSeq(p, 1, k - 1) = SubSeq(q, 1, k - 1)
        /\ p[k] < q[k]

DfsRank(layer, p) ==
    1 + Cardinality({q \in ReachableLeafPaths(layer) : LexLess(q, p)})

IsDfsLeafNames(layer, names) ==
    /\ Len(names) = Cardinality(ReachableLeafPaths(layer))
    /\ \A p \in ReachableLeafPaths(layer) :
           names[DfsRank(layer, p)] = NodeAt(layer, p).name

\* C1: get_demuxes_names(L) is the sequence of the names of the non-mux
\* leaves reachable from L, one entry per leaf, in depth-first left-to-right
\* predecessor order; for a non-mux L it is <<L.name>> whatever L.predecessor
\* holds.
C1_DemuxNamesAreDfsLeaves ==
    ret.op = "get_demuxes_names" =>
        /\ IsDfsLeafNames(info, ret.val)
        /\ (~info.is_mux => ret.val = <<info.name>>)

\* C1 witness: a mux over a leaf and an inner mux (two levels), enumerated,
\* with two leaves of the same name kept as two entries.
C1_Witness ==
    /\ ret.op = "get_demuxes_names"
    /\ info.is_mux
    /\ \E i \in 1..Len(info.predecessor) :
           info.predecessor[i].is_mux /\ Len(info.predecessor[i].predecessor) > 0
    /\ Len(ret.val) >= 2
    /\ Cardinality(Range(ret.val)) < Len(ret.val)

\* C2: is_edge_under_mux(L, n) is true exactly when n is an element of
\* get_demuxes_names(L); the name of a mux node alone does not make it true
\* and a mux without predecessors yields false.
C2_EdgeUnderMuxIffDemuxName ==
    ret.op = "is_edge_under_mux" =>
        /\ ret.val = (ret.edge_name \in Range(get_demuxes_names(info)))
        /\ (info.is_mux /\ info.predecessor = <<>> => ret.val = FALSE)

\* C2 witness: the queried name is the name of the mux root and of an inner
\* mux, no leaf carries it, and the test answered false.
C2_Witness ==
    /\ ret.op = "is_edge_under_mux"
    /\ info.is_mux
    /\ info.name = ret.edge_name
    /\ \E i \in 1..Len(info.predecessor) :
           /\ info.predecessor[i].is_mux
           /\ info.predecessor[i].name = ret.edge_name
           /\ Len(info.predecessor[i].predecessor) > 0
    /\ ret.val = FALSE

-----------------------------------------------------------------------------
(* CoreOpMetadataPerArch: a std::map from the uint32_t partial-clusters     *)
(* layout bitmap to a CoreOpMetadata.  A bitmap is kept as its 32-bit       *)
(* pattern read as a signed integer, so (uint32_t)-1 is -1, and the map's   *)
(* key order is the unsigned order of the patterns.                         *)

MaxAdds == 3        \* add_metadata calls in one behaviour

PARTIAL_CLUSTERS_LAYOUT_IGNORE == -1

Bitmaps == {3, 7, 9, PARTIAL_CLUSTERS_LAYOUT_IGNORE}

\* the CoreOpMetadata values that are registered, told apart by m_core_op_name
Variants == {"meta1", "meta2", "meta3"}

\* std::less<uint32_t> on two bit patterns
UnsignedLess(a, b) ==
    IF (a < 0) = (b < 0) THEN a < b ELSE b < 0

\* contains(m_metadata_per_arch, key)
contains(map, key) == key \in DOMAIN map

\* mutant: begin() taken from the other end of the key order
map_rbegin(map) ==
    CHOOSE k \in DOMAIN map : \A j \in DOMAIN map : j = k \/ UnsignedLess(j, k)

\* m_metadata_per_arch.begin()->first: the least key of a non-empty std::map
map_begin(map) ==
    CHOOSE k \in DOMAIN map : \A j \in DOMAIN map : j = k \/ UnsignedLess(k, j)

\* mutant: an existing key keeps its variant (insert() instead of operator[])
map_insert_if_absent(map, key, value) ==
    [k \in DOMAIN map \cup {key} |-> IF k \in DOMAIN map THEN map[k] ELSE value]

\* m_metadata_per_arch[key] = value
map_assign(map, key, value) ==
    [k \in DOMAIN map \cup {key} |-> IF k = key THEN value ELSE map[k]]

\* What get_metadata(PARTIAL_CLUSTERS_LAYOUT_IGNORE) can do on an empty map:
\* the assert stops the process in a build with assertions; without them
\* begin() is end() and reading ->second is undefined.
EmptyMapOutcomes == {"ASSERTION_ABORT", "UNDEFINED_READ_OF_END"}

Crashed == ret.op = "get_metadata" /\ ret.status \in EmptyMapOutcomes

InitArch ==
    /\ info = NoLayer
    /\ CoreIdle
    /\ m_metadata_per_arch = <<>>
    /\ add_log = <<>>
    /\ ret = NoCall

add_metadata ==
    \E metadata \in Variants, bitmap \in Bitmaps :
        /\ ~Crashed
        /\ Len(add_log) < MaxAdds
        /\ m_metadata_per_arch' = map_assign(m_metadata_per_arch, bitmap, metadata)
        /\ add_log' = Append(add_log, [bitmap |-> bitmap, metadata |-> metadata])
        /\ ret' = [op |-> "add_metadata", bitmap |-> bitmap]
        /\ UNCHANGED <<muxVars, coreVars>>

\* mutant: a key that is absent is looked up through operator[] all the same,
\* which inserts a default-constructed CoreOpMetadata under it
get_metadata_inserting ==
    \E bitmap \in Bitmaps \cup {5}, outcome \in EmptyMapOutcomes :
        /\ ~Crashed
        /\ m_metadata_per_arch' =
             IF PARTIAL_CLUSTERS_LAYOUT_IGNORE = bitmap THEN m_metadata_per_arch
             ELSE map_insert_if_absent(m_metadata_per_arch, bitmap, "default")
        /\ ret' =
             IF PARTIAL_CLUSTERS_LAYOUT_IGNORE = bitmap
             THEN IF DOMAIN m_metadata_per_arch = {}
                  THEN [op |-> "get_metadata", bitmap |-> bitmap, status |-> outcome]
                  ELSE [op |-> "get_metadata", bitmap |-> bitmap,
                        status |-> "HAILO_SUCCESS",
                        val |-> m_metadata_per_arch[map_begin(m_metadata_per_arch)]]
             ELSE [op |-> "get_metadata", bitmap |-> bitmap,
                   status |-> "HAILO_SUCCESS",
                   val |-> m_metadata_per_arch'[bitmap]]
        /\ UNCHANGED <<muxVars, coreVars, add_log>>

get_metadata ==
    \E bitmap \in Bitmaps \cup {5}, outcome \in EmptyMapOutcomes :
        /\ ~Crashed
        /\ ret' =
             IF PARTIAL_CLUSTERS_LAYOUT_IGNORE = bitmap
             THEN IF DOMAIN m_metadata_per_arch = {}
                  THEN [op |-> "get_metadata", bitmap |-> bitmap, status |-> outcome]
                  ELSE [op |-> "get_metadata", bitmap |-> bitmap,
                        status |-> "HAILO_SUCCESS",
                        val |-> m_metadata_per_arch[map_begin(m_metadata_per_arch)]]
             ELSE IF contains(m_metadata_per_arch, bitmap)
                  THEN [op |-> "get_metadata", bitmap |-> bitmap,
                        status |-> "HAILO_SUCCESS",
                        val |-> m_metadata_per_arch[bitmap]]
                  ELSE [op |-> "get_metadata", bitmap |-> bitmap,
                        status |-> "HAILO_INTERNAL_FAILURE"]
        /\ UNCHANGED <<muxVars, coreVars, archVars>>

NextArch ==
    \/ add_metadata
    \/ get_metadata

SpecArch == InitArch /\ [][NextArch]_vars

\* the positions of the add_metadata calls made under key b
AddsUnder(b) == {i \in 1..Len(add_log) : add_log[i].bitmap = b}

LastAddUnder(b) == CHOOSE i \in AddsUnder(b) : \A j \in AddsUnder(b) : j <= i

\* C5: get_metadata(b), b not the sentinel, returns the variant most recently
\* added under key b, and fails with InternalFailure when no add_metadata was
\* ever made with key b.
C5_GetMetadataReturnsLastAdded ==
    (ret.op = "get_metadata" /\ ret.bitmap # PARTIAL_CLUSTERS_LAYOUT_IGNORE) =>
        IF AddsUnder(ret.bitmap) = {}
        THEN ret.status = "HAILO_INTERNAL_FAILURE"
        ELSE /\ ret.status = "HAILO_SUCCESS"
             /\ ret.val = add_log[LastAddUnder(ret.bitmap)].metadata

\* C5 witness: a key added twice with different variants and another key
\* added in between, then looked up.
C5_Witness ==
    /\ ret.op = "get_metadata"
    /\ ret.bitmap # PARTIAL_CLUSTERS_LAYOUT_IGNORE
    /\ Len(add_log) = 3
    /\ add_log[1].bitmap = ret.bitmap
    /\ add_log[2].bitmap # ret.bitmap
    /\ add_log[3].bitmap = ret.bitmap
    /\ add_log[1].metadata # add_log[3].metadata
    /\ ret.val = add_log[3].metadata

C7_EmptySentinelIsInternalFailure ==
    (/\ ret.op = "get_metadata"
     /\ ret.bitmap = PARTIAL_CLUSTERS_LAYOUT_IGNORE
     /\ DOMAIN m_metadata_per_arch = {}) =>
        ret.status = "HAILO_INTERNAL_FAILURE"

-----------------------------------------------------------------------------
(* ContextMetadata: six edge-layer lists and the config-buffer map.         *)

MaxContexts == 2    \* dynamic contexts of one CoreOpMetadata
MaxEvents == 2      \* layers added and config writes recorded, in all

\* Width of int and of uint32_t, scaled down from 32 bits so that the sums
\* stay small; size_t is twice as wide, as on an LP64 build.
IntWidth == 4
SizeWidth == 2 * IntWidth

\* Expected<T>: a value, or the status of the failure
Ok(v) == [status |-> "HAILO_SUCCESS", value |-> v]
Err(status) == [status |-> status]

\* conversion of an integer to int: modulo 2^IntWidth, two's complement
ToInt(x) ==
    LET m == x % (2 ^ IntWidth)
    IN  IF m >= 2 ^ (IntWidth - 1) THEN m - 2 ^ IntWidth ELSE m

\* conversion of an integer to size_t: modulo 2^SizeWidth
ToSize(x) == x % (2 ^ SizeWidth)

\* LayerInfoUtils::get_transfer_size(layer_info): the byte size of the layer,
\* or a failure; the outcome is a datum of the layer
get_transfer_size(layer_info) == layer_info.transfer_size

ctx_add_boundary_layer(ctx, layer_info) ==
    IF "HAILO_H2D_STREAM" = layer_info.direction
    THEN [ctx EXCEPT !.m_boundary_input_layers = Append(@, layer_info)]
    ELSE [ctx EXCEPT !.m_boundary_output_layers = Append(@, layer_info)]

ctx_add_inter_context_layer(ctx, layer_info) ==
    IF "HAILO_H2D_STREAM" = layer_info.direction
    THEN [ctx EXCEPT !.m_inter_context_input_layers = Append(@, layer_info)]
    ELSE [ctx EXCEPT !.m_inter_context_output_layers = Append(@, layer_info)]

\* mutant: the DDR layers are pushed to the inter-context lists
ctx_add_ddr_layer_to_inter_context(ctx, layer_info) ==
    IF "HAILO_H2D_STREAM" = layer_info.direction
    THEN [ctx EXCEPT !.m_inter_context_input_layers = Append(@, layer_info)]
    ELSE [ctx EXCEPT !.m_inter_context_output_layers = Append(@, layer_info)]

ctx_add_ddr_layer(ctx, layer_info) ==
    IF "HAILO_H2D_STREAM" = layer_info.direction
    THEN [ctx EXCEPT !.m_ddr_input_layers = Append(@, layer_info)]
    ELSE [ctx EXCEPT !.m_ddr_output_layers = Append(@, layer_info)]

\* The loader's recording of one more write of `size` bytes to config buffer
\* `buffer` in the ConfigBufferInfoMap the context is built from.
ctx_record_config_write(ctx, buffer, size) ==
    [ctx EXCEPT !.m_config_buffers_info =
        [b \in DOMAIN @ \cup {buffer} |->
            IF b = buffer
            THEN (IF b \in DOMAIN @ THEN Append(@[b], size) ELSE <<size>>)
            ELSE @[b]]]

RECURSIVE get_layers_transfer_size_loop(_, _, _)
get_layers_transfer_size_loop(layer_infos, i, total_transfer_size) ==
    IF i > Len(layer_infos) THEN Ok(total_transfer_size)
    ELSE LET transfer_size == get_transfer_size(layer_infos[i])
         IN  IF transfer_size.status # "HAILO_SUCCESS"
             THEN Err(transfer_size.status)
             ELSE get_layers_transfer_size_loop(layer_infos, i + 1,
                      ToSize(total_transfer_size + transfer_size.value))

get_layers_transfer_size(layer_infos) ==
    get_layers_transfer_size_loop(layer_infos, 1, 0)

\* std::accumulate(first, last, 0): the accumulator has the type of the
\* literal 0, int; each step adds a uint32_t and converts the sum back to int
RECURSIVE accumulate(_, _, _)
accumulate(sizes, i, init) ==
    IF i > Len(sizes) THEN init
    ELSE accumulate(sizes, i + 1, ToInt(init + sizes[i]))

\* for (const auto &config_buffer_sizes : m_config_buffers_info)
\*     total_transfer_size += std::accumulate(...);
RECURSIVE config_buffers_transfer_size(_, _, _)
config_buffers_transfer_size(config_buffers_info, buffers, total_transfer_size) ==
    IF buffers = {} THEN total_transfer_size
    ELSE LET b == CHOOSE b \in buffers : TRUE
         IN  config_buffers_transfer_size(config_buffers_info, buffers \ {b},
                 ToSize(total_transfer_size + accumulate(config_buffers_info[b], 1, 0)))

get_context_transfer_size(ctx) ==
    LET config_size == config_buffers_transfer_size(ctx.m_config_buffers_info,
                           DOMAIN ctx.m_config_buffers_info, 0)
        boundary_input_transfer_size == get_layers_transfer_size(ctx.m_boundary_input_layers)
        boundary_output_transfer_size == get_layers_transfer_size(ctx.m_boundary_output_layers)
        ddr_input_transfer_size == get_layers_transfer_size(ctx.m_ddr_input_layers)
        ddr_output_transfer_size == get_layers_transfer_size(ctx.m_ddr_output_layers)
        inter_context_input_transfer_size ==
            get_layers_transfer_size(ctx.m_inter_context_input_layers)
        inter_context_output_transfer_size ==
            get_layers_transfer_size(ctx.m_inter_context_output_layers)
    IN  IF boundary_input_transfer_size.status # "HAILO_SUCCESS"
            THEN Err(boundary_input_transfer_size.status)
        ELSE IF boundary_output_transfer_size.status # "HAILO_SUCCESS"
            THEN Err(boundary_output_transfer_size.status)
        ELSE IF ddr_input_transfer_size.status # "HAILO_SUCCESS"
            THEN Err(ddr_input_transfer_size.status)
        ELSE IF ddr_output_transfer_size.status # "HAILO_SUCCESS"
            THEN Err(ddr_output_transfer_size.status)
        ELSE IF inter_context_input_transfer_size.status # "HAILO_SUCCESS"
            THEN Err(inter_context_input_transfer_size.status)
        ELSE IF inter_context_output_transfer_size.status # "HAILO_SUCCESS"
            THEN Err(inter_context_output_transfer_size.status)
        ELSE Ok(ToSize(config_size
                + boundary_input_transfer_size.value + boundary_output_transfer_size.value
                + ddr_input_transfer_size.value + ddr_output_transfer_size.value
                + inter_context_input_transfer_size.value
                + inter_context_output_transfer_size.value))

RECURSIVE get_total_transfer_size_loop(_, _, _)
get_total_transfer_size_loop(contexts, i, total_transfer_size) ==
    IF i > Len(contexts) THEN Ok(total_transfer_size)
    ELSE LET context_size == get_context_transfer_size(contexts[i])
         IN  IF context_size.status # "HAILO_SUCCESS"
             THEN Err(context_size.status)
             ELSE get_total_transfer_size_loop(contexts, i + 1,
                      ToSize(total_transfer_size + context_size.value))

\* mutant: the preliminary context is counted with the dynamic ones
get_total_transfer_size_with_preliminary ==
    get_total_transfer_size_loop(<<m_preliminary_context>> \o m_dynamic_contexts, 1, 0)

\* CoreOpMetadata::get_total_transfer_size()
get_total_transfer_size ==
    get_total_transfer_size_loop(m_dynamic_contexts, 1, 0)

-----------------------------------------------------------------------------
(* SpecSize: contexts are filled layer by layer and write by write, and the *)
(* transfer sizes are queried in between.                                   *)

\* the layers of the size model: only direction and transfer size matter
SizeLayers ==
    {[name |-> "a", direction |-> "HAILO_H2D_STREAM", transfer_size |-> t] :
        t \in {Ok(1), Err("HAILO_INVALID_ARGUMENT")}}
    \cup
    {[name |-> "a", direction |-> "HAILO_D2H_STREAM", transfer_size |-> t] :
        t \in {Ok(2), Err("HAILO_INVALID_OPERATION")}}

ConfigBuffers == {0, 1}
ConfigWriteSizes == {3, 5}

RECURSIVE SumLens(_, _)
SumLens(f, keys) ==
    IF keys = {} THEN 0
    ELSE LET k == CHOOSE k \in keys : TRUE IN Len(f[k]) + SumLens(f, keys \ {k})

ContextEvents(ctx) ==
    Len(ctx.m_boundary_input_layers) + Len(ctx.m_boundary_output_layers)
    + Len(ctx.m_inter_context_input_layers) + Len(ctx.m_inter_context_output_layers)
    + Len(ctx.m_ddr_input_layers) + Len(ctx.m_ddr_output_layers)
    + SumLens(ctx.m_config_buffers_info, DOMAIN ctx.m_config_buffers_info)

RECURSIVE EventsIn(_, _)
EventsIn(contexts, i) ==
    IF i > Len(contexts) THEN 0 ELSE ContextEvents(contexts[i]) + EventsIn(contexts, i + 1)

Events == ContextEvents(m_preliminary_context) + EventsIn(m_dynamic_contexts, 1)

\* context 0 is the preliminary context, 1.. are the dynamic contexts
ContextIds == 0..Len(m_dynamic_contexts)

ContextAt(c) == IF c = 0 THEN m_preliminary_context ELSE m_dynamic_contexts[c]

SetContext(c, ctx) ==
    IF c = 0
    THEN /\ m_preliminary_context' = ctx
         /\ UNCHANGED m_dynamic_contexts
    ELSE /\ m_dynamic_contexts' = [m_dynamic_contexts EXCEPT ![c] = ctx]
         /\ UNCHANGED m_preliminary_context

InitSize ==
    /\ info = NoLayer
    /\ m_preliminary_context = EmptyContext
    /\ m_dynamic_contexts \in {[i \in 1..n |-> EmptyContext] : n \in 0..MaxContexts}
    /\ m_sorted_output_names = <<>>
    /\ m_sorted_network_names = <<>>
    /\ hailo_net_flow = FALSE
    /\ m_output_vstreams_infos = <<>>
    /\ ArchIdle
    /\ ret = NoCall

add_boundary_layer(contexts, layers, budget) ==
    /\ Events < budget
    /\ \E c \in contexts, layer_info \in layers :
        /\ SetContext(c, ctx_add_boundary_layer(ContextAt(c), layer_info))
        /\ ret' = NoCall
        /\ UNCHANGED <<muxVars, m_sorted_output_names,
                       m_sorted_network_names, hailo_net_flow,
                       m_output_vstreams_infos, archVars>>

add_inter_context_layer(contexts, layers, budget) ==
    /\ Events < budget
    /\ \E c \in contexts, layer_info \in layers :
        /\ SetContext(c, ctx_add_inter_context_layer(ContextAt(c), layer_info))
        /\ ret' = NoCall
        /\ UNCHANGED <<muxVars, m_sorted_output_names,
                       m_sorted_network_names, hailo_net_flow,
                       m_output_vstreams_infos, archVars>>

add_ddr_layer(contexts, layers, budget) ==
    /\ Events < budget
    /\ \E c \in contexts, layer_info \in layers :
        /\ SetContext(c, ctx_add_ddr_layer(ContextAt(c), layer_info))
        /\ ret' = NoCall
        /\ UNCHANGED <<muxVars, m_sorted_output_names,
                       m_sorted_network_names, hailo_net_flow,
                       m_output_vstreams_infos, archVars>>

record_config_write(contexts, budget) ==
    /\ Events < budget
    /\ \E c \in contexts, buffer \in ConfigBuffers, size \in ConfigWriteSizes :
        /\ SetContext(c, ctx_record_config_write(ContextAt(c), buffer, size))
        /\ ret' = NoCall
        /\ UNCHANGED <<muxVars, m_sorted_output_names,
                       m_sorted_network_names, hailo_net_flow,
                       m_output_vstreams_infos, archVars>>

CallGetTotalTransferSize ==
    /\ ret' = [op |-> "get_total_transfer_size", result |-> get_total_transfer_size]
    /\ UNCHANGED <<muxVars, coreVars, archVars>>

NextSize ==
    \/ add_boundary_layer(ContextIds, SizeLayers, MaxEvents)
    \/ add_inter_context_layer(ContextIds, SizeLayers, MaxEvents)
    \/ add_ddr_layer(ContextIds, SizeLayers, MaxEvents)
    \/ record_config_write(ContextIds, MaxEvents)
    \/ CallGetTotalTransferSize

SpecSize == InitSize /\ [][NextSize]_vars

\* the dynamic contexts whose own size computation fails
FailingContexts ==
    {i \in 1..Len(m_dynamic_contexts) :
        get_context_transfer_size(m_dynamic_contexts[i]).status # "HAILO_SUCCESS"}

RECURSIVE SumOfContextSizes(_)
SumOfContextSizes(is) ==
    IF is = {} THEN 0
    ELSE LET i == CHOOSE i \in is : TRUE
         IN  get_context_transfer_size(m_dynamic_contexts[i]).value
             + SumOfContextSizes(is \ {i})

\* C9: get_total_transfer_size is the sum (in size_t) of
\* get_context_transfer_size over the dynamic contexts only; the preliminary
\* context never contributes; without dynamic contexts it is 0; when a
\* dynamic context's size fails the call fails with the failure of the first
\* such context.
C9_TotalIsSumOverDynamicContexts ==
    ret.op = "get_total_transfer_size" =>
        /\ IF FailingContexts = {}
           THEN ret.result = Ok(ToSize(SumOfContextSizes(1..Len(m_dynamic_contexts))))
           ELSE \E i \in FailingContexts :
                   /\ \A j \in FailingContexts : i <= j
                   /\ ret.result = Err(get_context_transfer_size(m_dynamic_contexts[i]).status)
        /\ (m_dynamic_contexts = <<>> => ret.result = Ok(0))

\* C9 witness: two dynamic contexts with positive sizes and a preliminary
\* context that holds a layer; the total is the sum of the two.
C9_Witness ==
    /\ ret.op = "get_total_transfer_size"
    /\ Len(m_dynamic_contexts) = 2
    /\ ContextEvents(m_preliminary_context) > 0
    /\ get_context_transfer_size(m_preliminary_context) \in {Ok(1), Ok(2), Ok(3), Ok(5)}
    /\ ContextEvents(m_dynamic_contexts[1]) > 0
    /\ ret.result.status = "HAILO_SUCCESS"
    /\ ret.result.value = get_context_transfer_size(m_dynamic_contexts[1]).value
                          + get_context_transfer_size(m_dynamic_contexts[2]).value

\* the layers whose transfer size is known
SizedLayers == {l \in SizeLayers : get_transfer_size(l).status = "HAILO_SUCCESS"}

\* the step turns dynamic context c into ctx and nothing else changes
DynamicContextBecomes(c, ctx) ==
    m_dynamic_contexts' = [m_dynamic_contexts EXCEPT ![c] = ctx]

TotalGrowsBy(size) ==
    get_total_transfer_size.status = "HAILO_SUCCESS" =>
        /\ get_total_transfer_size'.status = "HAILO_SUCCESS"
        /\ get_total_transfer_size'.value > get_total_transfer_size.value
        /\ get_total_transfer_size'.value = get_total_transfer_size.value + size

\* C10 as claimed: adding one layer (whose transfer size succeeds) to a dynamic
\* context through add_boundary_layer, add_inter_context_layer or
\* add_ddr_layer, or recording one more config write in one of its buffers,
\* strictly increases get_total_transfer_size, by exactly that layer's
\* transfer size or that write's byte size.
C10_AddIncreasesTotalBySize ==
    [][\A c \in 1..Len(m_dynamic_contexts) :
          /\ \A l \in SizedLayers :
                (\/ DynamicContextBecomes(c, ctx_add_boundary_layer(m_dynamic_contexts[c], l))
                 \/ DynamicContextBecomes(c, ctx_add_inter_context_layer(m_dynamic_contexts[c], l))
                 \/ DynamicContextBecomes(c, ctx_add_ddr_layer(m_dynamic_contexts[c], l)))
                    => TotalGrowsBy(get_transfer_size(l).value)
          /\ \A b \in ConfigBuffers, size \in ConfigWriteSizes :
                DynamicContextBecomes(c, ctx_record_config_write(m_dynamic_contexts[c], b, size))
                    => TotalGrowsBy(size)]_vars

-----------------------------------------------------------------------------
(* CoreOpMetadata: boundary layers by network, vstream infos, output order  *)

MaxLayers == 3      \* boundary layers added in the vstream model

\* CoreOpMetadata::default_network_name(): the reserved default-network name
default_network_name == "core_op/default"

\* mutant: the default-network name is treated like any other name
network_matches_without_default(layer_info, network_name) ==
    \/ layer_info.network_name = network_name
    \/ network_name = ""

network_matches(layer_info, network_name) ==
    \/ layer_info.network_name = network_name
    \/ network_name = ""
    \/ network_name = default_network_name

RECURSIVE filter_network_loop(_, _, _, _)
\* for (layer_info : layers) if (matches) res.emplace_back(layer_info);
filter_network_loop(layers, i, network_name, res) ==
    IF i > Len(layers) THEN res
    ELSE filter_network_loop(layers, i + 1, network_name,
             IF network_matches(layers[i], network_name)
             THEN Append(res, layers[i]) ELSE res)

RECURSIVE input_layers_loop(_, _, _, _)
input_layers_loop(contexts, c, network_name, res) ==
    IF c > Len(contexts) THEN res
    ELSE input_layers_loop(contexts, c + 1, network_name,
             filter_network_loop(contexts[c].m_boundary_input_layers, 1, network_name, res))

RECURSIVE output_layers_loop(_, _, _, _)
output_layers_loop(contexts, c, network_name, res) ==
    IF c > Len(contexts) THEN res
    ELSE output_layers_loop(contexts, c + 1, network_name,
             filter_network_loop(contexts[c].m_boundary_output_layers, 1, network_name, res))

\* get_input_layer_infos(const std::string &network_name)
get_input_layer_infos_of_network(network_name) ==
    LET res == input_layers_loop(m_dynamic_contexts, 1, network_name, <<>>)
    IN  IF Len(res) > 0 THEN Ok(res) ELSE Err("HAILO_NOT_FOUND")

\* mutant: the emptiness check of the result is left out
get_output_layer_infos_of_network_unchecked(network_name) ==
    Ok(output_layers_loop(m_dynamic_contexts, 1, network_name, <<>>))

\* get_output_layer_infos(const std::string &network_name)
get_output_layer_infos_of_network(network_name) ==
    LET res == output_layers_loop(m_dynamic_contexts, 1, network_name, <<>>)
    IN  IF Len(res) > 0 THEN Ok(res) ELSE Err("HAILO_NOT_FOUND")

\* LayerInfoUtils::get_vstream_infos_from_layer_info: the descriptors of the
\* demuxed leaves of a mux layer, of the fused layer of a defused-NMS
\* fragment, of the layer itself otherwise.  A descriptor is its name and its
\* network name.
get_vstream_infos_from_layer_info(layer_info) ==
    IF layer_info.is_mux
    THEN LET names == get_demuxes_names(layer_info)
         IN  [k \in 1..Len(names) |->
                 [name |-> names[k], network_name |-> layer_info.network_name]]
    ELSE IF layer_info.is_defused_nms
    THEN <<[name |-> layer_info.fused_nms_layer[1].name,
            network_name |-> layer_info.network_name]>>
    ELSE <<[name |-> layer_info.name, network_name |-> layer_info.network_name]>>

\* LayerInfoUtils::vstream_info_already_in_vector(vec, name)
vstream_info_already_in_vector(vec, name) ==
    \E k \in 1..Len(vec) : vec[k].name = name

RECURSIVE push_all_vstream_infos(_, _, _)
push_all_vstream_infos(vstream_infos, k, res) ==
    IF k > Len(vstream_infos) THEN res
    ELSE push_all_vstream_infos(vstream_infos, k + 1, Append(res, vstream_infos[k]))
RECURSIVE convert_without_check_loop(_, _, _)
convert_without_check_loop(layer_infos, i, res) ==
    IF i > Len(layer_infos) THEN res
    ELSE convert_without_check_loop(layer_infos, i + 1,
             push_all_vstream_infos(get_vstream_infos_from_layer_info(layer_infos[i]), 1, res))
\* mutant: every descriptor is pushed, also one whose name is in the vector
convert_layer_infos_to_vstream_infos_keep_all(layer_infos) ==
    convert_without_check_loop(layer_infos, 1, <<>>)

RECURSIVE push_new_vstream_infos(_, _, _)
\* for (vstream_info : vstream_infos) if (!already_in_vector) res.push_back(...)
push_new_vstream_infos(vstream_infos, k, res) ==
    IF k > Len(vstream_infos) THEN res
    ELSE push_new_vstream_infos(vstream_infos, k + 1,
             IF ~vstream_info_already_in_vector(res, vstream_infos[k].name)
             THEN Append(res, vstream_infos[k]) ELSE res)

RECURSIVE convert_layer_infos_to_vstream_infos_loop(_, _, _)
convert_layer_infos_to_vstream_infos_loop(layer_infos, i, res) ==
    IF i > Len(layer_infos) THEN res
    ELSE convert_layer_infos_to_vstream_infos_loop(layer_infos, i + 1,
             push_new_vstream_infos(get_vstream_infos_from_layer_info(layer_infos[i]), 1, res))

convert_layer_infos_to_vstream_infos(layer_infos) ==
    convert_layer_infos_to_vstream_infos_loop(layer_infos, 1, <<>>)

\* std::find(names.begin(), names.end(), name): the first position of name,
\* Len(names) + 1 standing for end()
find(names, name) ==
    IF \E i \in 1..Len(names) : names[i] = name
    THEN CHOOSE i \in 1..Len(names) :
             names[i] = name /\ \A j \in 1..(i - 1) : names[j] # name
    ELSE Len(names) + 1

\* mutant: the comparator orders by decreasing index
sort_compare_descending(info1, info2, status) ==
    LET index1 == find(m_sorted_output_names, info1.name)
        index2 == find(m_sorted_output_names, info2.name)
        end == Len(m_sorted_output_names) + 1
    IN  IF end = index1 THEN [less |-> FALSE, status |-> "HAILO_INTERNAL_FAILURE"]
        ELSE IF end = index2 THEN [less |-> FALSE, status |-> "HAILO_INTERNAL_FAILURE"]
        ELSE [less |-> index1 > index2, status |-> status]

\* The comparator lambda of get_output_vstream_infos: its answer, and the
\* captured status after the call.
sort_compare(info1, info2, status) ==
    LET index1 == find(m_sorted_output_names, info1.name)
        index2 == find(m_sorted_output_names, info2.name)
        end == Len(m_sorted_output_names) + 1
    IN  IF end = index1 THEN [less |-> FALSE, status |-> "HAILO_INTERNAL_FAILURE"]
        ELSE IF end = index2 THEN [less |-> FALSE, status |-> "HAILO_INTERNAL_FAILURE"]
        ELSE [less |-> index1 < index2, status |-> status]

\* std::sort on a short range is an insertion sort: the element at i goes to
\* the front when it compares less than the first, and otherwise moves down
\* while it compares less than its left neighbour.  A range of one element
\* calls the comparator not at all.
RECURSIVE unguarded_linear_insert(_, _, _)
unguarded_linear_insert(st, last, val) ==
    LET c == sort_compare(val, st.res[last - 1], st.status)
    IN  IF c.less
        THEN unguarded_linear_insert(
                 [res |-> [st.res EXCEPT ![last] = st.res[last - 1]], status |-> c.status],
                 last - 1, val)
        ELSE [res |-> [st.res EXCEPT ![last] = val], status |-> c.status]

RECURSIVE insertion_sort_loop(_, _)
insertion_sort_loop(st, i) ==
    IF i > Len(st.res) THEN st
    ELSE LET c == sort_compare(st.res[i], st.res[1], st.status)
         IN  IF c.less
             THEN insertion_sort_loop(
                      [res |-> <<st.res[i]>> \o SubSeq(st.res, 1, i - 1)
                                 \o SubSeq(st.res, i + 1, Len(st.res)),
                       status |-> c.status], i + 1)
             ELSE insertion_sort_loop(
                      unguarded_linear_insert([res |-> st.res, status |-> c.status],
                                              i, st.res[i]), i + 1)

std_sort(res, status) ==
    IF Len(res) = 0 THEN [res |-> res, status |-> status]
    ELSE insertion_sort_loop([res |-> res, status |-> status], 2)

get_input_vstream_infos(network_name) ==
    LET input_layer_infos == get_input_layer_infos_of_network(network_name)
    IN  IF input_layer_infos.status # "HAILO_SUCCESS" THEN Err(input_layer_infos.status)
        ELSE Ok(convert_layer_infos_to_vstream_infos(input_layer_infos.value))

\* mutant: the list is derived from the output layers whatever the feature
\* flags say
get_output_vstream_infos_from_layers(network_name) ==
    LET expected_output_layer_infos == get_output_layer_infos_of_network(network_name)
    IN  IF expected_output_layer_infos.status # "HAILO_SUCCESS"
        THEN Err(expected_output_layer_infos.status)
        ELSE LET res == convert_layer_infos_to_vstream_infos(
                            expected_output_layer_infos.value)
                 sorted == std_sort(res, "HAILO_SUCCESS")
             IN  IF sorted.status # "HAILO_SUCCESS" THEN Err(sorted.status)
                 ELSE Ok(sorted.res)

get_output_vstream_infos(network_name) ==
    IF hailo_net_flow THEN Ok(m_output_vstreams_infos)
    ELSE LET expected_output_layer_infos == get_output_layer_infos_of_network(network_name)
         IN  IF expected_output_layer_infos.status # "HAILO_SUCCESS"
             THEN Err(expected_output_layer_infos.status)
             ELSE LET res == convert_layer_infos_to_vstream_infos(
                                 expected_output_layer_infos.value)
                      sorted == std_sort(res, "HAILO_SUCCESS")
                  IN  IF sorted.status # "HAILO_SUCCESS" THEN Err(sorted.status)
                      ELSE Ok(sorted.res)

-----------------------------------------------------------------------------
(* SpecVstream: boundary layers of two networks are added to one dynamic    *)
(* context and the vstream infos are queried.                               *)

BoundaryLayer(name, direction, network_name, is_mux, predecessor, is_defused_nms, fused) ==
    [name |-> name, direction |-> direction, network_name |-> network_name,
     is_mux |-> is_mux, predecessor |-> predecessor,
     is_defused_nms |-> is_defused_nms, fused_nms_layer |-> fused,
     transfer_size |-> Ok(1)]

Leaf(name) == [name |-> name, is_mux |-> FALSE, predecessor |-> <<>>]

VstreamOutputLayers ==
    {BoundaryLayer("a", "HAILO_D2H_STREAM", "n1", FALSE, <<>>, FALSE, <<>>),
     BoundaryLayer("b", "HAILO_D2H_STREAM", "n2", FALSE, <<>>, FALSE, <<>>),
     BoundaryLayer("d1", "HAILO_D2H_STREAM", "n1", FALSE, <<>>, TRUE, <<Leaf("f")>>),
     BoundaryLayer("d2", "HAILO_D2H_STREAM", "n1", FALSE, <<>>, TRUE, <<Leaf("f")>>),
     BoundaryLayer("m", "HAILO_D2H_STREAM", "n1", TRUE, <<Leaf("b"), Leaf("a")>>,
                   FALSE, <<>>)}

VstreamInputLayers ==
    {BoundaryLayer("a", "HAILO_H2D_STREAM", "n1", FALSE, <<>>, FALSE, <<>>),
     BoundaryLayer("d1", "HAILO_H2D_STREAM", "n2", FALSE, <<>>, TRUE, <<Leaf("f")>>),
     BoundaryLayer("m", "HAILO_H2D_STREAM", "n1", TRUE, <<Leaf("f"), Leaf("a")>>,
                   FALSE, <<>>)}

VstreamNames == {"a", "b", "f"}

\* the canonical output order names every output at most once
SortedOutputNames ==
    {s \in SeqsUpTo(VstreamNames, Cardinality(VstreamNames)) :
        \A i, j \in 1..Len(s) : i # j => s[i] # s[j]}

NetworkNames == {"", "n1", "n2"}

InitVstream ==
    /\ info = NoLayer
    /\ m_preliminary_context = EmptyContext
    /\ m_dynamic_contexts = <<EmptyContext>>
    /\ m_sorted_output_names \in SortedOutputNames
    /\ m_sorted_network_names = <<>>
    /\ hailo_net_flow = FALSE
    /\ m_output_vstreams_infos = <<>>
    /\ ArchIdle
    /\ ret = NoCall

CallGetInputVstreamInfos ==
    \E network_name \in NetworkNames :
        /\ ret' = [op |-> "get_input_vstream_infos", network_name |-> network_name,
                   result |-> get_input_vstream_infos(network_name)]
        /\ UNCHANGED <<muxVars, coreVars, archVars>>

CallGetOutputVstreamInfos ==
    \E network_name \in NetworkNames :
        /\ ret' = [op |-> "get_output_vstream_infos", network_name |-> network_name,
                   result |-> get_output_vstream_infos(network_name)]
        /\ UNCHANGED <<muxVars, coreVars, archVars>>

NextVstream ==
    \/ add_boundary_layer({1}, VstreamOutputLayers \cup VstreamInputLayers, MaxLayers)
    \/ CallGetInputVstreamInfos
    \/ CallGetOutputVstreamInfos

SpecVstream == InitVstream /\ [][NextVstream]_vars

\* the boundary output / input layers of the dynamic contexts that match
MatchingOutputLayers(network_name) ==
    UNION {{l \in Range(m_dynamic_contexts[c].m_boundary_output_layers) :
               network_matches(l, network_name)} : c \in 1..Len(m_dynamic_contexts)}

\* the vstream descriptors the per-layer conversion derives from a set of layers
DerivedVstreamInfos(layers) ==
    UNION {Range(get_vstream_infos_from_layer_info(l)) : l \in layers}

DerivedNames(layers) == {v.name : v \in DerivedVstreamInfos(layers)}

\* C3 as claimed: with hailo_net_flow off, get_output_vstream_infos(network)
\* fails with InternalFailure whenever a vstream derived from the matching
\* output layers has a name absent from sorted_output_names, for every number
\* of derived vstreams, one included.
C3_AbsentOutputNameFails ==
    (/\ ret.op = "get_output_vstream_infos"
     /\ ~hailo_net_flow
     /\ DerivedNames(MatchingOutputLayers(ret.network_name))
            \ Range(m_sorted_output_names) # {}) =>
        ret.result.status = "HAILO_INTERNAL_FAILURE"

\* C4: with hailo_net_flow off, matching output layers and every derived
\* vstream name in sorted_output_names, get_output_vstream_infos(network)
\* succeeds with a permutation of the deduplicated derived vstreams (every
\* derived name once, every entry a derived descriptor), ordered by
\* non-decreasing index of the name in sorted_output_names.
C4_OutputVstreamsFollowSortedNames ==
    (/\ ret.op = "get_output_vstream_infos"
     /\ ~hailo_net_flow
     /\ MatchingOutputLayers(ret.network_name) # {}
     /\ DerivedNames(MatchingOutputLayers(ret.network_name))
            \subseteq Range(m_sorted_output_names)) =>
        /\ ret.result.status = "HAILO_SUCCESS"
        /\ LET res == ret.result.value
               derived == DerivedVstreamInfos(MatchingOutputLayers(ret.network_name))
           IN  /\ Range(res) \subseteq derived
               /\ {res[i].name : i \in 1..Len(res)} = {v.name : v \in derived}
               /\ Len(res) = Cardinality({v.name : v \in derived})
               /\ \A i, j \in 1..Len(res) :
                      i < j => find(m_sorted_output_names, res[i].name)
                                   <= find(m_sorted_output_names, res[j].name)
               /\ \A i \in 1..Len(res) :
                      find(m_sorted_output_names, res[i].name) <= Len(m_sorted_output_names)

\* C4 witness: three vstreams, one of them derived twice, returned in an
\* order that differs from the order of the layers.
C4_Witness ==
    /\ ret.op = "get_output_vstream_infos"
    /\ ret.result.status = "HAILO_SUCCESS"
    /\ Len(ret.result.value) = 3
    /\ Len(m_dynamic_contexts[1].m_boundary_output_layers) = 3
    /\ m_dynamic_contexts[1].m_boundary_output_layers[1].is_mux
    /\ ret.result.value # convert_layer_infos_to_vstream_infos(
                              m_dynamic_contexts[1].m_boundary_output_layers)

\* the descriptors of a list of layers, layer by layer, before deduplication
RECURSIVE Flat(_)
Flat(layer_infos) ==
    IF layer_infos = <<>> THEN <<>>
    ELSE get_vstream_infos_from_layer_info(Head(layer_infos)) \o Flat(Tail(layer_infos))

\* the positions of Flat that hold the first descriptor of their name
FirstOccurrences(flat) ==
    {k \in 1..Len(flat) : \A j \in 1..(k - 1) : flat[j].name # flat[k].name}

NoTwoSameName(vstream_infos) ==
    \A i, j \in 1..Len(vstream_infos) :
        i # j => vstream_infos[i].name # vstream_infos[j].name

\* C8: the result of convert_layer_infos_to_vstream_infos never holds two
\* descriptors of one name: every derived name appears once, at the place of
\* its first occurrence (seen through get_input_vstream_infos, which returns
\* the conversion as it is); the sorted output result holds each derived name
\* once as well, so defused-NMS fragments of one fused layer give one
\* descriptor.
C8_VstreamInfosAreDeduplicated ==
    /\ (ret.op = "get_input_vstream_infos" /\ ret.result.status = "HAILO_SUCCESS") =>
          LET flat == Flat(get_input_layer_infos_of_network(ret.network_name).value)
              firsts == FirstOccurrences(flat)
              res == ret.result.value
          IN  /\ NoTwoSameName(res)
              /\ Len(res) = Cardinality(firsts)
              /\ \A k \in firsts :
                     res[1 + Cardinality({j \in firsts : j < k})] = flat[k]
    /\ (ret.op = "get_output_vstream_infos" /\ ~hailo_net_flow
            /\ ret.result.status = "HAILO_SUCCESS") =>
          /\ NoTwoSameName(ret.result.value)
          /\ {ret.result.value[i].name : i \in 1..Len(ret.result.value)}
                 = DerivedNames(MatchingOutputLayers(ret.network_name))

\* C8 witness: two defused-NMS fragments of the fused layer "f" among the
\* output layers, and a result that holds "f" once.
C8_Witness ==
    /\ ret.op = "get_output_vstream_infos"
    /\ ret.result.status = "HAILO_SUCCESS"
    /\ \E i, j \in 1..Len(m_dynamic_contexts[1].m_boundary_output_layers) :
           /\ i # j
           /\ m_dynamic_contexts[1].m_boundary_output_layers[i].name = "d1"
           /\ m_dynamic_contexts[1].m_boundary_output_layers[j].name = "d2"
    /\ Cardinality({i \in 1..Len(ret.result.value) : ret.result.value[i].name = "f"}) = 1

\* C8 witness of the first-occurrence rule, kept with the witness above in
\* the same specification: an input mux that derives "f" and "a" after a
\* fragment has derived "f".
C8_InputWitness ==
    /\ ret.op = "get_input_vstream_infos"
    /\ ret.result.status = "HAILO_SUCCESS"
    /\ Len(Flat(get_input_layer_infos_of_network(ret.network_name).value)) = 4
    /\ Len(ret.result.value) = 2

-----------------------------------------------------------------------------
(* Unfiltered layer queries and the context count                            *)

RECURSIVE all_input_layers_loop(_, _, _)
\* for (context : m_dynamic_contexts) for (layer_info : inputs) res.emplace_back
all_input_layers_loop(contexts, c, res) ==
    IF c > Len(contexts) THEN res
    ELSE all_input_layers_loop(contexts, c + 1, res \o contexts[c].m_boundary_input_layers)

RECURSIVE all_output_layers_loop(_, _, _)
all_output_layers_loop(contexts, c, res) ==
    IF c > Len(contexts) THEN res
    ELSE all_output_layers_loop(contexts, c + 1, res \o contexts[c].m_boundary_output_layers)

\* mutant: the preliminary context is scanned before the dynamic ones
get_input_layer_infos_with_preliminary ==
    all_input_layers_loop(<<m_preliminary_context>> \o m_dynamic_contexts, 1, <<>>)

\* CoreOpMetadata::get_input_layer_infos()
get_input_layer_infos == all_input_layers_loop(m_dynamic_contexts, 1, <<>>)

\* CoreOpMetadata::get_output_layer_infos()
get_output_layer_infos == all_output_layers_loop(m_dynamic_contexts, 1, <<>>)

\* the number of contexts that are not dynamic: the preliminary one
CONTROL_PROTOCOL__CONTEXT_SWITCH_NUMBER_OF_NON_DYNAMIC_CONTEXTS == 1

\* mutant: only the dynamic contexts are counted
get_contexts_count_dynamic_only == ToSize(Len(m_dynamic_contexts))

\* CoreOpMetadata::get_contexts_count()
get_contexts_count ==
    ToSize(Len(m_dynamic_contexts)
           + CONTROL_PROTOCOL__CONTEXT_SWITCH_NUMBER_OF_NON_DYNAMIC_CONTEXTS)

-----------------------------------------------------------------------------
(* SpecLayers: boundary layers of two networks are added to the preliminary *)
(* and the dynamic contexts, and the layer queries are made in between.     *)

NetworkLayers ==
    {BoundaryLayer("a", "HAILO_H2D_STREAM", "n1", FALSE, <<>>, FALSE, <<>>),
     BoundaryLayer("b", "HAILO_H2D_STREAM", "n2", FALSE, <<>>, FALSE, <<>>),
     BoundaryLayer("a", "HAILO_D2H_STREAM", "n1", FALSE, <<>>, FALSE, <<>>),
     BoundaryLayer("b", "HAILO_D2H_STREAM", "n2", FALSE, <<>>, FALSE, <<>>)}

\* the names asked for: every network, the default one, n1, n2, and a name
\* no layer carries
QueriedNetworkNames == {"", default_network_name, "n1", "n2", "n3"}

UnionNetworkNames == {"", default_network_name}

InitLayers ==
    /\ info = NoLayer
    /\ m_preliminary_context = EmptyContext
    /\ m_dynamic_contexts \in {[i \in 1..n |-> EmptyContext] : n \in 0..MaxContexts}
    /\ m_sorted_output_names = <<>>
    /\ m_sorted_network_names = <<>>
    /\ hailo_net_flow = FALSE
    /\ m_output_vstreams_infos = <<>>
    /\ ArchIdle
    /\ ret = NoCall

CallGetInputLayerInfos ==
    /\ ret' = [op |-> "get_input_layer_infos", result |-> get_input_layer_infos]
    /\ UNCHANGED <<muxVars, coreVars, archVars>>

CallGetOutputLayerInfos ==
    /\ ret' = [op |-> "get_output_layer_infos", result |-> get_output_layer_infos]
    /\ UNCHANGED <<muxVars, coreVars, archVars>>

CallGetInputLayerInfosOfNetwork ==
    \E network_name \in QueriedNetworkNames :
        /\ ret' = [op |-> "get_input_layer_infos(network_name)",
                   network_name |-> network_name,
                   result |-> get_input_layer_infos_of_network(network_name)]
        /\ UNCHANGED <<muxVars, coreVars, archVars>>

CallGetOutputLayerInfosOfNetwork ==
    \E network_name \in QueriedNetworkNames :
        /\ ret' = [op |-> "get_output_layer_infos(network_name)",
                   network_name |-> network_name,
                   result |-> get_output_layer_infos_of_network(network_name)]
        /\ UNCHANGED <<muxVars, coreVars, archVars>>

CallGetContextsCount ==
    /\ ret' = [op |-> "get_contexts_count", result |-> get_contexts_count]
    /\ UNCHANGED <<muxVars, coreVars, archVars>>

NextLayers ==
    \/ add_boundary_layer(ContextIds, NetworkLayers, MaxLayers)
    \/ CallGetInputLayerInfos
    \/ CallGetOutputLayerInfos
    \/ CallGetInputLayerInfosOfNetwork
    \/ CallGetOutputLayerInfosOfNetwork
    \/ CallGetContextsCount

SpecLayers == InitLayers /\ [][NextLayers]_vars

\* some boundary layer of the given list of some dynamic context is
\* requested by network_name
SomeInputLayerMatches(network_name) ==
    \E c \in 1..Len(m_dynamic_contexts) :
        \E i \in 1..Len(m_dynamic_contexts[c].m_boundary_input_layers) :
            LET layer_info == m_dynamic_contexts[c].m_boundary_input_layers[i]
            IN  \/ network_name \in UnionNetworkNames
                \/ layer_info.network_name = network_name

SomeOutputLayerMatches(network_name) ==
    \E c \in 1..Len(m_dynamic_contexts) :
        \E i \in 1..Len(m_dynamic_contexts[c].m_boundary_output_layers) :
            LET layer_info == m_dynamic_contexts[c].m_boundary_output_layers[i]
            IN  \/ network_name \in UnionNetworkNames
                \/ layer_info.network_name = network_name

\* C11 (as claimed): get_input_layer_infos(n) and get_output_layer_infos(n)
\* called with the empty string or the default-network name return exactly
\* the list of the unfiltered query, in the same order, for every model.
C11_UnionNamesReturnUnfilteredList ==
    /\ (ret.op = "get_input_layer_infos(network_name)"
          /\ ret.network_name \in UnionNetworkNames)
        => ret.result = Ok(get_input_layer_infos)
    /\ (ret.op = "get_output_layer_infos(network_name)"
          /\ ret.network_name \in UnionNetworkNames)
        => ret.result = Ok(get_output_layer_infos)

\* C11 (amended): called with the empty string or the default-network name,
\* the filtered queries return exactly the list of the unfiltered query, in
\* the same order, when that list is not empty, and fail with NotFound when
\* it is empty.
C11_UnionNamesReturnUnfilteredListOrNotFound ==
    /\ (ret.op = "get_input_layer_infos(network_name)"
          /\ ret.network_name \in UnionNetworkNames)
        => ret.result = IF get_input_layer_infos # <<>>
                        THEN Ok(get_input_layer_infos)
                        ELSE Err("HAILO_NOT_FOUND")
    /\ (ret.op = "get_output_layer_infos(network_name)"
          /\ ret.network_name \in UnionNetworkNames)
        => ret.result = IF get_output_layer_infos # <<>>
                        THEN Ok(get_output_layer_infos)
                        ELSE Err("HAILO_NOT_FOUND")

\* the default-network name was asked for and the answer holds layers of two
\* networks taken from two dynamic contexts
C11_Witness ==
    /\ ret.op = "get_output_layer_infos(network_name)"
    /\ ret.network_name = default_network_name
    /\ ret.result.status = "HAILO_SUCCESS"
    /\ Len(m_dynamic_contexts) = 2
    /\ m_dynamic_contexts[1].m_boundary_output_layers # <<>>
    /\ m_dynamic_contexts[2].m_boundary_output_layers # <<>>
    /\ \E i, j \in 1..Len(ret.result.value) :
          ret.result.value[i].network_name # ret.result.value[j].network_name

\* C12: a filtered layer query fails with NotFound exactly when no boundary
\* layer of that direction in any dynamic context matches the name; a name
\* that is not empty, not the default name and carried by no layer gives
\* NotFound, and a successful result is never empty.
C12_NotFoundIffNoLayerMatches ==
    /\ ret.op = "get_input_layer_infos(network_name)" =>
          /\ ret.result.status \in {"HAILO_SUCCESS", "HAILO_NOT_FOUND"}
          /\ ret.result.status = "HAILO_NOT_FOUND"
                <=> ~SomeInputLayerMatches(ret.network_name)
          /\ ret.result.status = "HAILO_SUCCESS" => Len(ret.result.value) > 0
          /\ ret.network_name = "n3" => ret.result.status = "HAILO_NOT_FOUND"
    /\ ret.op = "get_output_layer_infos(network_name)" =>
          /\ ret.result.status \in {"HAILO_SUCCESS", "HAILO_NOT_FOUND"}
          /\ ret.result.status = "HAILO_NOT_FOUND"
                <=> ~SomeOutputLayerMatches(ret.network_name)
          /\ ret.result.status = "HAILO_SUCCESS" => Len(ret.result.value) > 0
          /\ ret.network_name = "n3" => ret.result.status = "HAILO_NOT_FOUND"

\* network n2 has an output layer in the preliminary context only, network
\* n1 has one in a dynamic context, and n2 is not found
C12_Witness ==
    /\ ret.op = "get_output_layer_infos(network_name)"
    /\ ret.network_name = "n2"
    /\ ret.result.status = "HAILO_NOT_FOUND"
    /\ \E i \in 1..Len(m_preliminary_context.m_boundary_output_layers) :
          m_preliminary_context.m_boundary_output_layers[i].network_name = "n2"
    /\ SomeOutputLayerMatches("n1")

\* C17: get_contexts_count() is the number of dynamic contexts plus one,
\* whatever the preliminary and the dynamic contexts hold.
C17_ContextsCountIsDynamicPlusOne ==
    ret.op = "get_contexts_count" => ret.result = Len(m_dynamic_contexts) + 1

\* the count was taken with two dynamic contexts while the preliminary
\* context and a dynamic context hold layers
C17_Witness ==
    /\ ret.op = "get_contexts_count"
    /\ ret.result = 3
    /\ m_preliminary_context # EmptyContext
    /\ \E c \in 1..Len(m_dynamic_contexts) : m_dynamic_contexts[c] # EmptyContext

-----------------------------------------------------------------------------
(* Name resolution between physical streams and virtual streams             *)

\* mutant: the outputs are listed before the inputs
get_all_layer_infos_outputs_first == get_output_layer_infos \o get_input_layer_infos

\* CoreOpMetadata::get_all_layer_infos()
get_all_layer_infos == get_input_layer_infos \o get_output_layer_infos

RECURSIVE get_vstream_names_mux_first_loop(_, _, _)
get_vstream_names_mux_first_loop(layer_infos, i, stream_name) ==
    IF i > Len(layer_infos) THEN Err("HAILO_NOT_FOUND")
    ELSE LET layer_info == layer_infos[i]
         IN  IF stream_name = layer_info.name
             THEN IF layer_info.is_mux
                  THEN Ok(get_demuxes_names(layer_info))
                  ELSE IF layer_info.is_defused_nms
                  THEN Ok(<<layer_info.fused_nms_layer[1].name>>)
                  ELSE Ok(<<layer_info.name>>)
             ELSE get_vstream_names_mux_first_loop(layer_infos, i + 1, stream_name)

\* mutant: is_mux is tested before is_defused_nms
get_vstream_names_from_stream_name_mux_first(stream_name) ==
    get_vstream_names_mux_first_loop(get_all_layer_infos, 1, stream_name)

RECURSIVE get_vstream_names_from_stream_name_loop(_, _, _)
\* for (auto &layer_info : get_all_layer_infos()) if (stream_name == layer_info.name) ...
get_vstream_names_from_stream_name_loop(layer_infos, i, stream_name) ==
    IF i > Len(layer_infos) THEN Err("HAILO_NOT_FOUND")
    ELSE LET layer_info == layer_infos[i]
         IN  IF stream_name = layer_info.name
             THEN IF layer_info.is_defused_nms
                  THEN Ok(<<layer_info.fused_nms_layer[1].name>>)
                  ELSE IF layer_info.is_mux
                  THEN Ok(get_demuxes_names(layer_info))
                  ELSE Ok(<<layer_info.name>>)
             ELSE get_vstream_names_from_stream_name_loop(layer_infos, i + 1, stream_name)

\* CoreOpMetadata::get_vstream_names_from_stream_name
get_vstream_names_from_stream_name(stream_name) ==
    get_vstream_names_from_stream_name_loop(get_all_layer_infos, 1, stream_name)

RECURSIVE get_stream_names_from_vstream_name_loop(_, _, _, _)
\* for (auto &layer_info : get_all_layer_infos()) { if ... else if ... }
get_stream_names_from_vstream_name_loop(layer_infos, i, vstream_name, results) ==
    IF i > Len(layer_infos) THEN results
    ELSE LET layer_info == layer_infos[i]
         IN  get_stream_names_from_vstream_name_loop(layer_infos, i + 1, vstream_name,
                 IF layer_info.is_mux
                 THEN IF is_edge_under_mux(layer_info, vstream_name)
                      THEN Append(results, layer_info.name) ELSE results
                 ELSE IF layer_info.is_defused_nms
                 THEN IF vstream_name = layer_info.fused_nms_layer[1].name
                      THEN Append(results, layer_info.name) ELSE results
                 ELSE IF hailo_net_flow /\ layer_info.direction = "HAILO_D2H_STREAM"
                 THEN Append(results, layer_info.name)
                 ELSE IF vstream_name = layer_info.name
                 THEN Append(results, layer_info.name)
                 ELSE results)

\* mutant: the name asked for is pushed instead of the layer's name
get_stream_names_from_vstream_name_echo(vstream_name) ==
    LET results == get_stream_names_from_vstream_name_loop(
                       get_all_layer_infos, 1, vstream_name, <<>>)
    IN  IF 0 < Len(results)
        THEN Ok([i \in 1..Len(results) |-> vstream_name])
        ELSE Err("HAILO_NOT_FOUND")

\* CoreOpMetadata::get_stream_names_from_vstream_name
get_stream_names_from_vstream_name(vstream_name) ==
    LET results == get_stream_names_from_vstream_name_loop(
                       get_all_layer_infos, 1, vstream_name, <<>>)
    IN  IF 0 < Len(results) THEN Ok(results) ELSE Err("HAILO_NOT_FOUND")

-----------------------------------------------------------------------------
(* SpecNames: plain, mux and defused-NMS boundary layers are added to the   *)
(* preliminary context and to two dynamic contexts, with and without        *)
(* hailo_net_flow, and names are resolved in between.                       *)

NameLayers ==
    {BoundaryLayer("m", "HAILO_H2D_STREAM", "n1", FALSE, <<>>, FALSE, <<>>),
     BoundaryLayer("b", "HAILO_D2H_STREAM", "n1", FALSE, <<>>, FALSE, <<>>),
     BoundaryLayer("m", "HAILO_D2H_STREAM", "n1", TRUE, <<Leaf("b"), Leaf("a")>>,
                   FALSE, <<>>),
     BoundaryLayer("d", "HAILO_D2H_STREAM", "n1", FALSE, <<>>, TRUE, <<Leaf("f")>>),
     BoundaryLayer("x", "HAILO_D2H_STREAM", "n1", TRUE, <<Leaf("m")>>,
                   TRUE, <<Leaf("f")>>)}

StreamNames == {"m", "b", "d", "x"}

QueriedVstreamNames == {"a", "b", "f", "m"}

\* the output vstream descriptors resolved in advance for a net-flow model
PreResolvedOutputVstreams ==
    {<<[name |-> "z", network_name |-> "n1"], [name |-> "a", network_name |-> "n1"]>>,
     <<[name |-> "a", network_name |-> "n1"], [name |-> "z", network_name |-> "n1"]>>}

InitNames ==
    /\ info = NoLayer
    /\ m_preliminary_context = EmptyContext
    /\ m_dynamic_contexts = <<EmptyContext, EmptyContext>>
    /\ m_sorted_output_names = <<>>
    /\ m_sorted_network_names = <<>>
    /\ hailo_net_flow \in BOOLEAN
    /\ m_output_vstreams_infos \in
          IF hailo_net_flow THEN PreResolvedOutputVstreams ELSE {<<>>}
    /\ ArchIdle
    /\ ret = NoCall

CallGetVstreamNamesFromStreamName ==
    \E stream_name \in StreamNames :
        /\ ret' = [op |-> "get_vstream_names_from_stream_name",
                   stream_name |-> stream_name,
                   result |-> get_vstream_names_from_stream_name(stream_name)]
        /\ UNCHANGED <<muxVars, coreVars, archVars>>

CallGetStreamNamesFromVstreamName ==
    \E vstream_name \in QueriedVstreamNames :
        /\ ret' = [op |-> "get_stream_names_from_vstream_name",
                   vstream_name |-> vstream_name,
                   result |-> get_stream_names_from_vstream_name(vstream_name)]
        /\ UNCHANGED <<muxVars, coreVars, archVars>>

NextNames ==
    \/ add_boundary_layer(ContextIds, NameLayers, MaxLayers)
    \/ CallGetVstreamNamesFromStreamName
    \/ CallGetStreamNamesFromVstreamName
    \/ CallGetOutputVstreamInfos

SpecNames == InitNames /\ [][NextNames]_vars

RECURSIVE InputsUpTo(_)
\* the boundary input layers of the dynamic contexts 1..c, context by context
InputsUpTo(c) ==
    IF c = 0 THEN <<>>
    ELSE InputsUpTo(c - 1) \o m_dynamic_contexts[c].m_boundary_input_layers

RECURSIVE OutputsUpTo(_)
OutputsUpTo(c) ==
    IF c = 0 THEN <<>>
    ELSE OutputsUpTo(c - 1) \o m_dynamic_contexts[c].m_boundary_output_layers

\* the boundary layers in layer order: inputs of all dynamic contexts, then
\* outputs of all dynamic contexts
LayersInOrder ==
    InputsUpTo(Len(m_dynamic_contexts)) \o OutputsUpTo(Len(m_dynamic_contexts))

NamesOf(layers) == [i \in 1..Len(layers) |-> layers[i].name]

\* C13: get_vstream_names_from_stream_name(s) answers from the first
\* boundary layer named s (inputs of all dynamic contexts, then outputs):
\* the fused layer name if it is a defused-NMS fragment (also when it is mux),
\* else its demux names if it is mux, else s; NotFound exactly when no
\* boundary layer of a dynamic context is named s.
C13_VstreamNamesOfFirstLayerNamed ==
    ret.op = "get_vstream_names_from_stream_name" =>
        LET named == {i \in 1..Len(LayersInOrder) :
                         LayersInOrder[i].name = ret.stream_name}
        IN  IF named = {}
            THEN ret.result = Err("HAILO_NOT_FOUND")
            ELSE LET first == CHOOSE i \in named : \A j \in named : i <= j
                     L == LayersInOrder[first]
                 IN  ret.result =
                        Ok(IF L.is_defused_nms THEN <<L.fused_nms_layer[1].name>>
                           ELSE IF L.is_mux
                           THEN [k \in 1..Len(L.predecessor) |-> L.predecessor[k].name]
                           ELSE <<ret.stream_name>>)

\* the layer that is both mux and defused-NMS resolves to its fused name
\* while an input of the second dynamic context and the preliminary context
\* hold other layers
C13_Witness ==
    /\ ret.op = "get_vstream_names_from_stream_name"
    /\ ret.stream_name = "x"
    /\ ret.result = Ok(<<"f">>)
    /\ m_dynamic_contexts[2].m_boundary_input_layers # <<>>
    /\ m_preliminary_context.m_boundary_output_layers # <<>>

\* the first layer named m is a plain input of the second dynamic context,
\* the mux output named m of the first dynamic context comes after it
C13_FirstLayerWitness ==
    /\ ret.op = "get_vstream_names_from_stream_name"
    /\ ret.stream_name = "m"
    /\ ret.result = Ok(<<"m">>)
    /\ \E i \in 1..Len(m_dynamic_contexts[1].m_boundary_output_layers) :
          m_dynamic_contexts[1].m_boundary_output_layers[i].is_mux

\* the device-to-host boundary layers of the dynamic contexts
D2HLayerNames ==
    {LayersInOrder[i].name : i \in
        {j \in 1..Len(LayersInOrder) : LayersInOrder[j].direction = "HAILO_D2H_STREAM"}}

\* C14: with hailo_net_flow set, get_stream_names_from_vstream_name(v)
\* contains the name of every device-to-host boundary layer of the dynamic
\* contexts, for every v, also for mux and defused-NMS layers that v does
\* not match.
C14_NetFlowListsEveryD2HLayer ==
    (/\ hailo_net_flow
     /\ ret.op = "get_stream_names_from_vstream_name"
     /\ D2HLayerNames # {})
    => /\ ret.result.status = "HAILO_SUCCESS"
       /\ D2HLayerNames \subseteq Range(ret.result.value)

\* L contributes its name to the stream names of v when net flow is off
Contributes(L, v) ==
    \/ L.is_mux /\ \E k \in 1..Len(L.predecessor) : L.predecessor[k].name = v
    \/ ~L.is_mux /\ L.is_defused_nms /\ L.fused_nms_layer[1].name = v
    \/ ~L.is_mux /\ ~L.is_defused_nms /\ L.name = v

\* C15: with hailo_net_flow off, get_stream_names_from_vstream_name(v)
\* returns, in layer order, exactly the names of the boundary layers that
\* are mux with v among the demuxed leaves, or non-mux defused-NMS with the
\* fused layer named v, or plain and named v; NotFound exactly when there
\* is none.
C15_StreamNamesOfVstreamName ==
    (~hailo_net_flow /\ ret.op = "get_stream_names_from_vstream_name") =>
        LET expected == NamesOf(SelectSeq(LayersInOrder,
                                          LAMBDA L : Contributes(L, ret.vstream_name)))
        IN  ret.result = IF expected = <<>> THEN Err("HAILO_NOT_FOUND")
                         ELSE Ok(expected)

\* v = m is the name of a plain input of the second dynamic context and a
\* leaf of a mux output of the first: the input is listed first
C15_Witness ==
    /\ ~hailo_net_flow
    /\ ret.op = "get_stream_names_from_vstream_name"
    /\ ret.vstream_name = "m"
    /\ ret.result = Ok(<<"m", "x">>)
    /\ m_dynamic_contexts[1].m_boundary_input_layers = <<>>
    /\ m_dynamic_contexts[2].m_boundary_output_layers = <<>>

\* C16: with hailo_net_flow set, get_output_vstream_infos(network) returns
\* m_output_vstreams_infos as it is, for every network argument, whatever
\* the output layers and sorted_output_names hold.
C16_NetFlowReturnsPreResolvedList ==
    (hailo_net_flow /\ ret.op = "get_output_vstream_infos")
    => ret.result = Ok(m_output_vstreams_infos)

\* network n2 is carried by no layer, the names z and a are absent from
\* sorted_output_names, two output layers exist, and the list is returned
C16_Witness ==
    /\ hailo_net_flow
    /\ ret.op = "get_output_vstream_infos"
    /\ ret.network_name = "n2"
    /\ ret.result.status = "HAILO_SUCCESS"
    /\ Len(ret.result.value) = 2
    /\ ret.result.value[1].name = "z"
    /\ Len(OutputsUpTo(Len(m_dynamic_contexts))) >= 2

-----------------------------------------------------------------------------
(* ContextMetadata: the action list                                         *)

MaxActions == 3     \* actions of one context

\* ContextSwitchConfigAction::Type: the closed enumeration of action types
ActionTypes == {"Type_A", "Type_B", "Type_C"}

RECURSIVE get_actions_of_type_reversed_loop(_, _, _, _)
get_actions_of_type_reversed_loop(actions, i, action_types, filtered_actions) ==
    IF i > Len(actions) THEN filtered_actions
    ELSE get_actions_of_type_reversed_loop(actions, i + 1, action_types,
             IF actions[i].type \in action_types
             THEN <<actions[i]>> \o filtered_actions
             ELSE filtered_actions)

\* mutant: a kept action is put in front of the ones kept before it
get_actions_of_type_reversed(ctx, action_types) ==
    get_actions_of_type_reversed_loop(ctx.m_actions, 1, action_types, <<>>)

RECURSIVE get_actions_of_type_loop(_, _, _, _)
\* for (const auto &action : m_actions)
\*     if (action_types.find(action->get_type()) != action_types.end())
\*         filtered_actions.emplace_back(action);
get_actions_of_type_loop(actions, i, action_types, filtered_actions) ==
    IF i > Len(actions) THEN filtered_actions
    ELSE get_actions_of_type_loop(actions, i + 1, action_types,
             IF actions[i].type \in action_types
             THEN Append(filtered_actions, actions[i])
             ELSE filtered_actions)

\* ContextMetadata::get_actions_of_type
get_actions_of_type(ctx, action_types) ==
    get_actions_of_type_loop(ctx.m_actions, 1, action_types, <<>>)

-----------------------------------------------------------------------------
(* SpecActions: a context is built from every short action list and its     *)
(* actions are asked for by every set of types.                             *)

\* the action objects a list is made of: two of one type, one of another;
\* no action has the third type
Actions ==
    {[type |-> "Type_A", id |-> "a1"],
     [type |-> "Type_A", id |-> "a2"],
     [type |-> "Type_B", id |-> "b1"]}

InitActions ==
    /\ info = NoLayer
    /\ m_preliminary_context \in
          {[EmptyContext EXCEPT !.m_actions = actions] :
              actions \in SeqsUpTo(Actions, MaxActions)}
    /\ m_dynamic_contexts = <<>>
    /\ m_sorted_output_names = <<>>
    /\ m_sorted_network_names = <<>>
    /\ hailo_net_flow = FALSE
    /\ m_output_vstreams_infos = <<>>
    /\ ArchIdle
    /\ ret = NoCall

CallGetActionsOfType ==
    \E action_types \in SUBSET ActionTypes :
        /\ ret' = [op |-> "get_actions_of_type", action_types |-> action_types,
                   result |-> get_actions_of_type(m_preliminary_context, action_types)]
        /\ UNCHANGED <<muxVars, coreVars, archVars>>

NextActions == CallGetActionsOfType

SpecActions == InitActions /\ [][NextActions]_vars

\* C19: get_actions_of_type(T) returns exactly the subsequence of the
\* context's actions whose type is in T, in their original order and with
\* their multiplicity; the empty list when T is empty and the whole list
\* when T holds every type present.
C19_ActionsOfTypeIsStableFilter ==
    ret.op = "get_actions_of_type" =>
        LET actions == m_preliminary_context.m_actions
            present == {actions[i].type : i \in 1..Len(actions)}
        IN  /\ ret.result = SelectSeq(actions, LAMBDA a : a.type \in ret.action_types)
            /\ ret.action_types = {} => ret.result = <<>>
            /\ present \subseteq ret.action_types => ret.result = actions

\* two different actions of one type stand around an action of another
\* type, and both are kept, in order
C19_Witness ==
    /\ ret.op = "get_actions_of_type"
    /\ ret.action_types = {"Type_A", "Type_C"}
    /\ Len(m_preliminary_context.m_actions) = 3
    /\ m_preliminary_context.m_actions[2].type = "Type_B"
    /\ Len(ret.result) = 2
    /\ ret.result[1] # ret.result[2]

-----------------------------------------------------------------------------
(* SpecContext: one ContextMetadata (held as the preliminary context) is    *)
(* filled by the three add methods and by config writes, and its transfer   *)
(* size is asked for in between.                                            *)

InitContext ==
    /\ info = NoLayer
    /\ m_preliminary_context = EmptyContext
    /\ m_dynamic_contexts = <<>>
    /\ m_sorted_output_names = <<>>
    /\ m_sorted_network_names = <<>>
    /\ hailo_net_flow = FALSE
    /\ m_output_vstreams_infos = <<>>
    /\ ArchIdle
    /\ ret = NoCall

CallAddBoundaryLayer ==
    /\ Events < MaxEvents
    /\ \E layer_info \in SizeLayers :
        /\ m_preliminary_context' =
               ctx_add_boundary_layer(m_preliminary_context, layer_info)
        /\ ret' = [op |-> "add_boundary_layer", layer_info |-> layer_info]
        /\ UNCHANGED <<muxVars, m_dynamic_contexts, m_sorted_output_names,
                       m_sorted_network_names,
                       hailo_net_flow, m_output_vstreams_infos, archVars>>

CallAddInterContextLayer ==
    /\ Events < MaxEvents
    /\ \E layer_info \in SizeLayers :
        /\ m_preliminary_context' =
               ctx_add_inter_context_layer(m_preliminary_context, layer_info)
        /\ ret' = [op |-> "add_inter_context_layer", layer_info |-> layer_info]
        /\ UNCHANGED <<muxVars, m_dynamic_contexts, m_sorted_output_names,
                       m_sorted_network_names,
                       hailo_net_flow, m_output_vstreams_infos, archVars>>

CallAddDdrLayer ==
    /\ Events < MaxEvents
    /\ \E layer_info \in SizeLayers :
        /\ m_preliminary_context' =
               ctx_add_ddr_layer(m_preliminary_context, layer_info)
        /\ ret' = [op |-> "add_ddr_layer", layer_info |-> layer_info]
        /\ UNCHANGED <<muxVars, m_dynamic_contexts, m_sorted_output_names,
                       m_sorted_network_names,
                       hailo_net_flow, m_output_vstreams_infos, archVars>>

CallGetContextTransferSize ==
    /\ ret' = [op |-> "get_context_transfer_size",
               result |-> get_context_transfer_size(m_preliminary_context)]
    /\ UNCHANGED <<muxVars, coreVars, archVars>>

NextContext ==
    \/ CallAddBoundaryLayer
    \/ CallAddInterContextLayer
    \/ CallAddDdrLayer
    \/ record_config_write({0}, MaxEvents)
    \/ CallGetContextTransferSize

SpecContext == InitContext /\ [][NextContext]_vars

AddOps == {"add_boundary_layer", "add_inter_context_layer", "add_ddr_layer"}

SixLists ==
    {"m_boundary_input_layers", "m_boundary_output_layers",
     "m_inter_context_input_layers", "m_inter_context_output_layers",
     "m_ddr_input_layers", "m_ddr_output_layers"}

\* the list an added layer belongs to: the category is the method called,
\* input for HostToDevice and output otherwise
TargetList(op, direction) ==
    IF op = "add_boundary_layer"
    THEN (IF direction = "HAILO_H2D_STREAM" THEN "m_boundary_input_layers"
          ELSE "m_boundary_output_layers")
    ELSE IF op = "add_inter_context_layer"
    THEN (IF direction = "HAILO_H2D_STREAM" THEN "m_inter_context_input_layers"
          ELSE "m_inter_context_output_layers")
    ELSE (IF direction = "HAILO_H2D_STREAM" THEN "m_ddr_input_layers"
          ELSE "m_ddr_output_layers")

RECURSIVE SumOfLengths(_, _)
SumOfLengths(ctx, lists) ==
    IF lists = {} THEN 0
    ELSE LET l == CHOOSE l \in lists : TRUE
         IN  Len(ctx[l]) + SumOfLengths(ctx, lists \ {l})

\* C18: every add call appends the layer at the end of exactly one of the
\* six lists, the one of the method's category and of the layer's
\* direction, and leaves the other five as they were; nothing else changes
\* the lists, so the six lengths sum to the number of add calls.
C18_AddAppendsToExactlyOneList ==
    [][ /\ ret'.op \in AddOps =>
            LET target == TargetList(ret'.op, ret'.layer_info.direction)
            IN  /\ m_preliminary_context'[target]
                      = Append(m_preliminary_context[target], ret'.layer_info)
                /\ \A other \in SixLists \ {target} :
                      m_preliminary_context'[other] = m_preliminary_context[other]
                /\ SumOfLengths(m_preliminary_context', SixLists)
                      = SumOfLengths(m_preliminary_context, SixLists) + 1
        /\ ret'.op \notin AddOps =>
            \A l \in SixLists : m_preliminary_context'[l] = m_preliminary_context[l]
      ]_vars

\* a device-to-host layer was just added by add_ddr_layer to a context that
\* already held a layer of another list
C18_Witness ==
    /\ ret.op = "add_ddr_layer"
    /\ ret.layer_info.direction = "HAILO_D2H_STREAM"
    /\ m_preliminary_context.m_ddr_output_layers = <<ret.layer_info>>
    /\ SumOfLengths(m_preliminary_context, SixLists) = 2

\* the layers of the six lists of a context
LayersOfContext(ctx) ==
    ctx.m_boundary_input_layers \o ctx.m_boundary_output_layers
    \o ctx.m_ddr_input_layers \o ctx.m_ddr_output_layers
    \o ctx.m_inter_context_input_layers \o ctx.m_inter_context_output_layers

RECURSIVE SumSeq(_)
SumSeq(sizes) == IF sizes = <<>> THEN 0 ELSE Head(sizes) + SumSeq(Tail(sizes))

RECURSIVE SumOfConfigWrites(_, _)
SumOfConfigWrites(config_buffers_info, buffers) ==
    IF buffers = {} THEN 0
    ELSE LET b == CHOOSE b \in buffers : TRUE
         IN  SumSeq(config_buffers_info[b])
             + SumOfConfigWrites(config_buffers_info, buffers \ {b})

\* C20: get_context_transfer_size is the sum of all recorded sizes of all
\* config buffers plus the sum of transfer_size over the layers of the six
\* lists; if transfer_size fails for a layer of any list, the call returns
\* that failure and no size.
C20_ContextSizeIsSumOrFailure ==
    ret.op = "get_context_transfer_size" =>
        LET ctx == m_preliminary_context
            layers == LayersOfContext(ctx)
            failures == {layers[i].transfer_size.status : i \in
                            {j \in 1..Len(layers) :
                                layers[j].transfer_size.status # "HAILO_SUCCESS"}}
        IN  IF failures # {}
            THEN /\ ret.result.status \in failures
                 /\ "value" \notin DOMAIN ret.result
            ELSE ret.result =
                   Ok(SumOfConfigWrites(ctx.m_config_buffers_info,
                                        DOMAIN ctx.m_config_buffers_info)
                      + SumSeq([i \in 1..Len(layers) |-> layers[i].transfer_size.value]))

\* what one config buffer adds to the total: the int sum of its sizes,
\* converted to size_t by the += on total_transfer_size
ConfigBufferContribution(sizes) == ToSize(accumulate(sizes, 1, 0))

\* C28: in get_context_transfer_size each config buffer contributes the
\* exact arithmetic sum of its recorded write sizes whenever that sum fits
\* in size_t; the per-buffer accumulation does not wrap at a narrower width.
C28_ConfigBufferContributesExactSum ==
    ret.op = "get_context_transfer_size" =>
        \A b \in DOMAIN m_preliminary_context.m_config_buffers_info :
            LET sizes == m_preliminary_context.m_config_buffers_info[b]
            IN  SumSeq(sizes) < 2 ^ SizeWidth
                => ConfigBufferContribution(sizes) = SumSeq(sizes)

-----------------------------------------------------------------------------
(* The network info table                                                   *)

MaxNetworks == 2    \* entries of sorted_network_names

\* capacity of hailo_network_info_t::name, scaled down
HAILO_MAX_NETWORK_NAME_SIZE == 3

\* the characters of a network name, and the terminator of a C string
Chars == {"x", "y"}
NUL == "NUL"

\* std::string::c_str(): the characters followed by the terminator
c_str(name) == Append(name, NUL)

\* memcpy(dest, src, n) on character arrays
memcpy(dest, src, n) == [i \in DOMAIN dest |-> IF i <= n THEN src[i] ELSE dest[i]]

\* hailo_network_info_t network_info = {}
ZeroNetworkInfo == [name |-> [i \in 1..HAILO_MAX_NETWORK_NAME_SIZE |-> NUL]]

RECURSIVE get_network_infos_strict_loop(_, _, _)
get_network_infos_strict_loop(names, i, network_infos) ==
    IF i > Len(names) THEN Ok(network_infos)
    ELSE LET network_name == names[i]
         IN  IF ~(HAILO_MAX_NETWORK_NAME_SIZE > Len(network_name) + 1)
             THEN Err("HAILO_INTERNAL_FAILURE")
             ELSE get_network_infos_strict_loop(names, i + 1,
                      Append(network_infos,
                             [ZeroNetworkInfo EXCEPT !.name =
                                 memcpy(@, c_str(network_name), Len(network_name) + 1)]))

\* mutant: the length check is > instead of >=
get_network_infos_strict ==
    get_network_infos_strict_loop(m_sorted_network_names, 1, <<>>)

RECURSIVE get_network_infos_loop(_, _, _)
\* for (auto const &network_name : m_sorted_network_names) { CHECK; memcpy; push_back }
get_network_infos_loop(names, i, network_infos) ==
    IF i > Len(names) THEN Ok(network_infos)
    ELSE LET network_name == names[i]
         IN  IF ~(HAILO_MAX_NETWORK_NAME_SIZE >= Len(network_name) + 1)
             THEN Err("HAILO_INTERNAL_FAILURE")
             ELSE get_network_infos_loop(names, i + 1,
                      Append(network_infos,
                             [ZeroNetworkInfo EXCEPT !.name =
                                 memcpy(@, c_str(network_name), Len(network_name) + 1)]))

\* CoreOpMetadata::get_network_infos
get_network_infos == get_network_infos_loop(m_sorted_network_names, 1, <<>>)

-----------------------------------------------------------------------------
(* SpecNetworks: a core op is built with every short list of network names  *)
(* of up to the capacity in length, and the table is asked for.             *)

NetworkNameStrings == SeqsUpTo(Chars, HAILO_MAX_NETWORK_NAME_SIZE)

InitNetworks ==
    /\ info = NoLayer
    /\ m_preliminary_context = EmptyContext
    /\ m_dynamic_contexts = <<>>
    /\ m_sorted_output_names = <<>>
    /\ m_sorted_network_names \in SeqsUpTo(NetworkNameStrings, MaxNetworks)
    /\ hailo_net_flow = FALSE
    /\ m_output_vstreams_infos = <<>>
    /\ ArchIdle
    /\ ret = NoCall

CallGetNetworkInfos ==
    /\ ret' = [op |-> "get_network_infos", result |-> get_network_infos]
    /\ UNCHANGED <<muxVars, coreVars, archVars>>

NextNetworks == CallGetNetworkInfos

SpecNetworks == InitNetworks /\ [][NextNetworks]_vars

\* the C string held by a character array: the characters before the first
\* terminator
CStringOf(array) ==
    LET ends == {i \in DOMAIN array : array[i] = NUL}
        end == CHOOSE i \in ends : \A j \in ends : i <= j
    IN  SubSeq(array, 1, end - 1)

\* C22: get_network_infos returns one record per entry of
\* sorted_network_names, in order, carrying the same name, when every name
\* with its terminator fits in HAILO_MAX_NETWORK_NAME_SIZE (length MAX-1
\* is accepted); if a name has length >= MAX the call fails with
\* InternalFailure and returns no table.
C22_NetworkInfosOrInternalFailure ==
    ret.op = "get_network_infos" =>
        LET names == m_sorted_network_names
        IN  IF \A i \in 1..Len(names) : Len(names[i]) < HAILO_MAX_NETWORK_NAME_SIZE
            THEN /\ ret.result.status = "HAILO_SUCCESS"
                 /\ Len(ret.result.value) = Len(names)
                 /\ \A i \in 1..Len(names) :
                       /\ Len(ret.result.value[i].name) = HAILO_MAX_NETWORK_NAME_SIZE
                       /\ CStringOf(ret.result.value[i].name) = names[i]
            ELSE ret.result = Err("HAILO_INTERNAL_FAILURE")

\* two different names, one of them of length MAX-1, give a table of two
C22_Witness ==
    /\ ret.op = "get_network_infos"
    /\ ret.result.status = "HAILO_SUCCESS"
    /\ Len(m_sorted_network_names) = 2
    /\ Len(m_sorted_network_names[1]) = HAILO_MAX_NETWORK_NAME_SIZE - 1
    /\ m_sorted_network_names[1] # m_sorted_network_names[2]

\* the second name is too long and nothing is returned
C22_FailureWitness ==
    /\ ret.op = "get_network_infos"
    /\ ret.result = Err("HAILO_INTERNAL_FAILURE")
    /\ Len(m_sorted_network_names) = 2
    /\ Len(m_sorted_network_names[1]) < HAILO_MAX_NETWORK_NAME_SIZE

-----------------------------------------------------------------------------
(* Layer lookup by stream name, and the queries on all layers of a network  *)

RECURSIVE get_layer_info_by_stream_name_last_loop(_, _, _, _)
get_layer_info_by_stream_name_last_loop(layer_infos, i, stream_name, found) ==
    IF i > Len(layer_infos) THEN found
    ELSE get_layer_info_by_stream_name_last_loop(layer_infos, i + 1, stream_name,
             IF layer_infos[i].name = stream_name THEN Ok(layer_infos[i]) ELSE found)

\* mutant: the scan does not stop at the first layer of that name
get_layer_info_by_stream_name_last(stream_name) ==
    get_layer_info_by_stream_name_last_loop(get_all_layer_infos, 1, stream_name,
                                            Err("HAILO_NOT_FOUND"))

RECURSIVE get_layer_info_by_stream_name_loop(_, _, _)
\* for (auto layer_info : get_all_layer_infos()) if (layer_info.name == stream_name) return
get_layer_info_by_stream_name_loop(layer_infos, i, stream_name) ==
    IF i > Len(layer_infos) THEN Err("HAILO_NOT_FOUND")
    ELSE IF layer_infos[i].name = stream_name THEN Ok(layer_infos[i])
    ELSE get_layer_info_by_stream_name_loop(layer_infos, i + 1, stream_name)

\* CoreOpMetadata::get_layer_info_by_stream_name
get_layer_info_by_stream_name(stream_name) ==
    get_layer_info_by_stream_name_loop(get_all_layer_infos, 1, stream_name)

\* mutant: a direction without matching layers counts as an empty list
get_all_layer_infos_of_network_lenient(network_name) ==
    LET res == input_layers_loop(m_dynamic_contexts, 1, network_name, <<>>)
               \o output_layers_loop(m_dynamic_contexts, 1, network_name, <<>>)
    IN  IF Len(res) > 0 THEN Ok(res) ELSE Err("HAILO_NOT_FOUND")

\* CoreOpMetadata::get_all_layer_infos(const std::string &network_name)
get_all_layer_infos_of_network(network_name) ==
    LET input_layer_infos == get_input_layer_infos_of_network(network_name)
        output_layer_infos == get_output_layer_infos_of_network(network_name)
    IN  IF input_layer_infos.status # "HAILO_SUCCESS" THEN Err(input_layer_infos.status)
        ELSE IF output_layer_infos.status # "HAILO_SUCCESS"
        THEN Err(output_layer_infos.status)
        ELSE Ok(input_layer_infos.value \o output_layer_infos.value)

\* LayerInfoUtils::get_stream_info_from_layer_info: the descriptor of the
\* physical stream of a layer, told apart by name and direction
get_stream_info_from_layer_info(layer_info) ==
    [name |-> layer_info.name, direction |-> layer_info.direction]

\* CoreOpMetadata::convert_layer_infos_to_stream_infos
convert_layer_infos_to_stream_infos(layer_infos) ==
    [i \in 1..Len(layer_infos) |-> get_stream_info_from_layer_info(layer_infos[i])]

\* CoreOpMetadata::get_input_stream_infos
get_input_stream_infos(network_name) ==
    LET input_layer_infos == get_input_layer_infos_of_network(network_name)
    IN  IF input_layer_infos.status # "HAILO_SUCCESS" THEN Err(input_layer_infos.status)
        ELSE Ok(convert_layer_infos_to_stream_infos(input_layer_infos.value))

\* CoreOpMetadata::get_output_stream_infos
get_output_stream_infos(network_name) ==
    LET output_layer_infos == get_output_layer_infos_of_network(network_name)
    IN  IF output_layer_infos.status # "HAILO_SUCCESS" THEN Err(output_layer_infos.status)
        ELSE Ok(convert_layer_infos_to_stream_infos(output_layer_infos.value))

\* CoreOpMetadata::get_all_stream_infos
get_all_stream_infos(network_name) ==
    LET input_stream_infos == get_input_stream_infos(network_name)
        output_stream_infos == get_output_stream_infos(network_name)
    IN  IF input_stream_infos.status # "HAILO_SUCCESS" THEN Err(input_stream_infos.status)
        ELSE IF output_stream_infos.status # "HAILO_SUCCESS"
        THEN Err(output_stream_infos.status)
        ELSE Ok(input_stream_infos.value \o output_stream_infos.value)

\* CoreOpMetadata::get_all_vstream_infos
get_all_vstream_infos(network_name) ==
    LET input_vstream_infos == get_input_vstream_infos(network_name)
        output_vstream_infos == get_output_vstream_infos(network_name)
    IN  IF input_vstream_infos.status # "HAILO_SUCCESS" THEN Err(input_vstream_infos.status)
        ELSE IF output_vstream_infos.status # "HAILO_SUCCESS"
        THEN Err(output_vstream_infos.status)
        ELSE Ok(input_vstream_infos.value \o output_vstream_infos.value)

-----------------------------------------------------------------------------
(* SpecLookup: boundary layers of two networks are added to the preliminary *)
(* and to two dynamic contexts, inter-context and DDR layers to the first   *)
(* dynamic context, and every layer query is made in between.               *)

\* the boundary layers: network n1 has an input only, network n2 an input
\* and an output of one name
LookupLayers ==
    {BoundaryLayer("a", "HAILO_H2D_STREAM", "n1", FALSE, <<>>, FALSE, <<>>),
     BoundaryLayer("b", "HAILO_H2D_STREAM", "n2", FALSE, <<>>, FALSE, <<>>),
     BoundaryLayer("b", "HAILO_D2H_STREAM", "n2", FALSE, <<>>, FALSE, <<>>)}

\* the layer given to add_inter_context_layer and add_ddr_layer
NonBoundaryLayers ==
    {BoundaryLayer("c", "HAILO_H2D_STREAM", "n1", FALSE, <<>>, FALSE, <<>>)}

LookupStreamNames == {"a", "b", "c"}

LookupNetworkNames == {"", "n1", "n2"}

InitLookup ==
    /\ info = NoLayer
    /\ m_preliminary_context = EmptyContext
    /\ m_dynamic_contexts = <<EmptyContext, EmptyContext>>
    /\ m_sorted_output_names = <<"a", "b">>
    /\ m_sorted_network_names = <<>>
    /\ hailo_net_flow = FALSE
    /\ m_output_vstreams_infos = <<>>
    /\ ArchIdle
    /\ ret = NoCall

CallGetAllLayerInfos ==
    /\ ret' = [op |-> "get_all_layer_infos", result |-> get_all_layer_infos]
    /\ UNCHANGED <<muxVars, coreVars, archVars>>

CallGetLayerInfoByStreamName ==
    \E stream_name \in LookupStreamNames :
        /\ ret' = [op |-> "get_layer_info_by_stream_name", stream_name |-> stream_name,
                   result |-> get_layer_info_by_stream_name(stream_name)]
        /\ UNCHANGED <<muxVars, coreVars, archVars>>

CallGetAllLayerInfosOfNetwork ==
    \E network_name \in LookupNetworkNames :
        /\ ret' = [op |-> "get_all_layer_infos(network_name)",
                   network_name |-> network_name,
                   result |-> get_all_layer_infos_of_network(network_name)]
        /\ UNCHANGED <<muxVars, coreVars, archVars>>

CallGetAllStreamInfos ==
    \E network_name \in LookupNetworkNames :
        /\ ret' = [op |-> "get_all_stream_infos", network_name |-> network_name,
                   result |-> get_all_stream_infos(network_name)]
        /\ UNCHANGED <<muxVars, coreVars, archVars>>

CallGetAllVstreamInfos ==
    \E network_name \in LookupNetworkNames :
        /\ ret' = [op |-> "get_all_vstream_infos", network_name |-> network_name,
                   result |-> get_all_vstream_infos(network_name)]
        /\ UNCHANGED <<muxVars, coreVars, archVars>>

NextLookup ==
    \/ add_boundary_layer(ContextIds, LookupLayers, MaxLayers)
    \/ add_inter_context_layer({1}, NonBoundaryLayers, MaxLayers)
    \/ add_ddr_layer({1}, NonBoundaryLayers, MaxLayers)
    \/ CallGetInputLayerInfos
    \/ CallGetOutputLayerInfos
    \/ CallGetAllLayerInfos
    \/ CallGetInputLayerInfosOfNetwork
    \/ CallGetOutputLayerInfosOfNetwork
    \/ CallGetAllLayerInfosOfNetwork
    \/ CallGetAllStreamInfos
    \/ CallGetAllVstreamInfos
    \/ CallGetLayerInfoByStreamName
    \/ CallGetVstreamNamesFromStreamName
    \/ CallGetStreamNamesFromVstreamName

SpecLookup == InitLookup /\ [][NextLookup]_vars

\* the layers of a list that a network name asks for
MatchingSeq(layers, network_name) ==
    SelectSeq(layers, LAMBDA L : \/ network_name \in UnionNetworkNames
                                 \/ L.network_name = network_name)

DynamicInputs == InputsUpTo(Len(m_dynamic_contexts))

DynamicOutputs == OutputsUpTo(Len(m_dynamic_contexts))

\* the first layer of that name in layer order, when there is one
FirstNamed(stream_name) ==
    LET named == {i \in 1..Len(LayersInOrder) : LayersInOrder[i].name = stream_name}
    IN  LayersInOrder[CHOOSE i \in named : \A j \in named : i <= j]

SomeLayerNamed(stream_name) ==
    \E i \in 1..Len(LayersInOrder) : LayersInOrder[i].name = stream_name

\* C21: get_layer_info_by_stream_name(s) succeeds exactly when a boundary
\* input or output layer of a dynamic context is named s and then returns
\* the first one, inputs of all dynamic contexts before outputs; otherwise
\* NotFound.  Inter-context and DDR layers are never returned.
C21_LayerInfoByStreamNameIsFirstBoundaryLayer ==
    ret.op = "get_layer_info_by_stream_name" =>
        /\ ret.result = IF SomeLayerNamed(ret.stream_name)
                        THEN Ok(FirstNamed(ret.stream_name))
                        ELSE Err("HAILO_NOT_FOUND")
        /\ ret.result.status = "HAILO_SUCCESS" =>
              \A c \in 1..Len(m_dynamic_contexts) :
                  ret.result.value \notin
                      Range(m_dynamic_contexts[c].m_inter_context_input_layers)
                      \cup Range(m_dynamic_contexts[c].m_inter_context_output_layers)
                      \cup Range(m_dynamic_contexts[c].m_ddr_input_layers)
                      \cup Range(m_dynamic_contexts[c].m_ddr_output_layers)

\* the input named b of the second dynamic context is returned although the
\* first dynamic context holds an output named b
C21_Witness ==
    /\ ret.op = "get_layer_info_by_stream_name"
    /\ ret.stream_name = "b"
    /\ ret.result.status = "HAILO_SUCCESS"
    /\ ret.result.value.direction = "HAILO_H2D_STREAM"
    /\ m_dynamic_contexts[1].m_boundary_input_layers = <<>>
    /\ m_dynamic_contexts[1].m_boundary_output_layers # <<>>
    /\ m_dynamic_contexts[2].m_boundary_input_layers # <<>>

\* an inter-context layer named c exists and the lookup of c fails
C21_NonBoundaryWitness ==
    /\ ret.op = "get_layer_info_by_stream_name"
    /\ ret.stream_name = "c"
    /\ ret.result = Err("HAILO_NOT_FOUND")
    /\ m_dynamic_contexts[1].m_inter_context_input_layers # <<>>

\* C24: boundary layers of the preliminary context are invisible to every
\* layer query: the unfiltered and filtered input, output and all-layer
\* queries, the lookup by stream name and both name resolutions answer from
\* the layers of the dynamic contexts only, in dynamic-context order and,
\* within a context, in insertion order.
C24_PreliminaryLayersAreInvisible ==
    /\ ret.op = "get_input_layer_infos" => ret.result = DynamicInputs
    /\ ret.op = "get_output_layer_infos" => ret.result = DynamicOutputs
    /\ ret.op = "get_all_layer_infos" => ret.result = DynamicInputs \o DynamicOutputs
    /\ ret.op = "get_input_layer_infos(network_name)" =>
          LET ins == MatchingSeq(DynamicInputs, ret.network_name)
          IN  ret.result = IF ins # <<>> THEN Ok(ins) ELSE Err("HAILO_NOT_FOUND")
    /\ ret.op = "get_output_layer_infos(network_name)" =>
          LET outs == MatchingSeq(DynamicOutputs, ret.network_name)
          IN  ret.result = IF outs # <<>> THEN Ok(outs) ELSE Err("HAILO_NOT_FOUND")
    /\ (ret.op = "get_all_layer_infos(network_name)"
          /\ ret.result.status = "HAILO_SUCCESS") =>
          ret.result.value = MatchingSeq(DynamicInputs, ret.network_name)
                             \o MatchingSeq(DynamicOutputs, ret.network_name)
    /\ ret.op = "get_layer_info_by_stream_name" =>
          IF SomeLayerNamed(ret.stream_name)
          THEN ret.result.status = "HAILO_SUCCESS"
               /\ ret.result.value \in Range(LayersInOrder)
          ELSE ret.result = Err("HAILO_NOT_FOUND")
    /\ ret.op = "get_vstream_names_from_stream_name" =>
          (ret.result.status = "HAILO_SUCCESS" <=> SomeLayerNamed(ret.stream_name))
    /\ ret.op = "get_stream_names_from_vstream_name" =>
          LET expected == NamesOf(SelectSeq(LayersInOrder,
                                            LAMBDA L : Contributes(L, ret.vstream_name)))
          IN  ret.result = IF expected = <<>> THEN Err("HAILO_NOT_FOUND")
                           ELSE Ok(expected)

\* the preliminary context holds the input a, the dynamic contexts hold
\* other inputs, one each, and the inputs are listed without a
C24_Witness ==
    /\ ret.op = "get_input_layer_infos"
    /\ Len(m_preliminary_context.m_boundary_input_layers) = 1
    /\ m_preliminary_context.m_boundary_input_layers[1].name = "a"
    /\ Len(ret.result) = 2
    /\ \A i \in 1..Len(ret.result) : ret.result[i].name = "b"
    /\ m_dynamic_contexts[1].m_boundary_input_layers # <<>>
    /\ m_dynamic_contexts[2].m_boundary_input_layers # <<>>

\* the name a is carried by a layer of the preliminary context only and is
\* not found
C24_LookupWitness ==
    /\ ret.op = "get_layer_info_by_stream_name"
    /\ ret.stream_name = "a"
    /\ ret.result = Err("HAILO_NOT_FOUND")
    /\ m_preliminary_context.m_boundary_input_layers # <<>>
    /\ LayersInOrder # <<>>

\* C27: get_all_layer_infos(n) succeeds exactly when get_input_layer_infos(n)
\* and get_output_layer_infos(n) both succeed, and then returns the matching
\* inputs followed by the matching outputs; a network with matching layers
\* in one direction only gives NotFound for get_all_layer_infos,
\* get_all_stream_infos and, with hailo_net_flow off, get_all_vstream_infos.
C27_AllLayerInfosNeedBothDirections ==
    /\ ret.op = "get_all_layer_infos(network_name)" =>
          LET ins == MatchingSeq(DynamicInputs, ret.network_name)
              outs == MatchingSeq(DynamicOutputs, ret.network_name)
          IN  /\ ret.result.status = "HAILO_SUCCESS"
                    <=> /\ get_input_layer_infos_of_network(ret.network_name).status
                             = "HAILO_SUCCESS"
                        /\ get_output_layer_infos_of_network(ret.network_name).status
                             = "HAILO_SUCCESS"
              /\ ret.result = IF ins # <<>> /\ outs # <<>>
                              THEN Ok(ins \o outs) ELSE Err("HAILO_NOT_FOUND")
    /\ (/\ ret.op \in {"get_all_layer_infos(network_name)", "get_all_stream_infos",
                        "get_all_vstream_infos"}
        /\ ~hailo_net_flow
        /\ (MatchingSeq(DynamicInputs, ret.network_name) = <<>>)
             # (MatchingSeq(DynamicOutputs, ret.network_name) = <<>>))
       => ret.result = Err("HAILO_NOT_FOUND")

\* network n1 has an input in a dynamic context and no output, other
\* outputs exist, and all layers of n1 are not found
C27_Witness ==
    /\ ret.op = "get_all_layer_infos(network_name)"
    /\ ret.network_name = "n1"
    /\ ret.result = Err("HAILO_NOT_FOUND")
    /\ MatchingSeq(DynamicInputs, "n1") # <<>>
    /\ DynamicOutputs # <<>>

\* both directions match and the inputs come first
C27_SuccessWitness ==
    /\ ret.op = "get_all_layer_infos(network_name)"
    /\ ret.network_name = "n2"
    /\ ret.result.status = "HAILO_SUCCESS"
    /\ Len(ret.result.value) = 2
    /\ m_dynamic_contexts[1].m_boundary_input_layers = <<>>
    /\ m_dynamic_contexts[2].m_boundary_output_layers = <<>>

\* the vstream infos of a network with inputs only are not found
C27_VstreamWitness ==
    /\ ret.op = "get_all_vstream_infos"
    /\ ret.network_name = "n1"
    /\ ret.result = Err("HAILO_NOT_FOUND")
    /\ MatchingSeq(DynamicInputs, "n1") # <<>>

-----------------------------------------------------------------------------
(* SpecRoundTrip: plain, mux, leafless mux, defused-NMS and mux+defused     *)
(* boundary layers are added to two dynamic contexts, in both net-flow      *)
(* modes, and names are resolved in both directions in between.             *)

RoundTripLayers ==
    {BoundaryLayer("m", "HAILO_H2D_STREAM", "n1", FALSE, <<>>, FALSE, <<>>),
     BoundaryLayer("b", "HAILO_D2H_STREAM", "n1", FALSE, <<>>, FALSE, <<>>),
     BoundaryLayer("m", "HAILO_D2H_STREAM", "n1", TRUE, <<Leaf("b"), Leaf("a")>>,
                   FALSE, <<>>),
     BoundaryLayer("d", "HAILO_D2H_STREAM", "n1", FALSE, <<>>, TRUE, <<Leaf("f")>>),
     BoundaryLayer("x", "HAILO_D2H_STREAM", "n1", TRUE, <<Leaf("m")>>,
                   TRUE, <<Leaf("f")>>),
     BoundaryLayer("e", "HAILO_D2H_STREAM", "n1", TRUE, <<>>, FALSE, <<>>)}

InitRoundTrip ==
    /\ info = NoLayer
    /\ m_preliminary_context = EmptyContext
    /\ m_dynamic_contexts = <<EmptyContext, EmptyContext>>
    /\ m_sorted_output_names = <<>>
    /\ m_sorted_network_names = <<>>
    /\ hailo_net_flow \in BOOLEAN
    /\ m_output_vstreams_infos = <<>>
    /\ ArchIdle
    /\ ret = NoCall

NextRoundTrip ==
    \/ add_boundary_layer(1..Len(m_dynamic_contexts), RoundTripLayers, MaxEvents)
    \/ CallGetVstreamNamesFromStreamName
    \/ CallGetStreamNamesFromVstreamName
    \/ CallGetLayerInfoByStreamName

SpecRoundTrip == InitRoundTrip /\ [][NextRoundTrip]_vars

\* the first boundary layer of that name is both mux and a defused-NMS fragment
FirstNamedIsMuxAndDefused(stream_name) ==
    FirstNamed(stream_name).is_mux /\ FirstNamed(stream_name).is_defused_nms

\* the answer to get_stream_names_from_vstream_name(v) is a success that
\* contains the name of the boundary layer L
RoundTripsTo(L) ==
    LET names == get_vstream_names_from_stream_name(L.name)
    IN  (names.status = "HAILO_SUCCESS" /\ ret.vstream_name \in Range(names.value))
            => /\ ret.result.status = "HAILO_SUCCESS"
               /\ L.name \in Range(ret.result.value)

\* C25 (as stated): with hailo_net_flow off, for every boundary layer L of a
\* dynamic context and every v in get_vstream_names_from_stream_name(L.name),
\* get_stream_names_from_vstream_name(v) succeeds and contains L.name, also
\* for layers that are both mux and defused-NMS.
C25_RoundTripForEveryLayer ==
    (~hailo_net_flow /\ ret.op = "get_stream_names_from_vstream_name") =>
        \A i \in 1..Len(LayersInOrder) : RoundTripsTo(LayersInOrder[i])

\* C25 (amended): with hailo_net_flow off, for every boundary layer L of a
\* dynamic context such that the first boundary layer named L.name is not
\* both mux and defused-NMS, and every v in
\* get_vstream_names_from_stream_name(L.name),
\* get_stream_names_from_vstream_name(v) succeeds and contains L.name.
C25_RoundTripUnlessMuxAndDefused ==
    (~hailo_net_flow /\ ret.op = "get_stream_names_from_vstream_name") =>
        \A i \in 1..Len(LayersInOrder) :
            ~FirstNamedIsMuxAndDefused(LayersInOrder[i].name)
                => RoundTripsTo(LayersInOrder[i])

\* the second demux name of a mux layer is resolved back to the mux layer
\* while a mux layer without leaves is present
C25_Witness ==
    /\ ~hailo_net_flow
    /\ ret.op = "get_stream_names_from_vstream_name"
    /\ ret.vstream_name = "a"
    /\ ret.result = Ok(<<"m">>)
    /\ \E i \in 1..Len(LayersInOrder) :
            /\ LayersInOrder[i].is_mux
            /\ LayersInOrder[i].predecessor = <<>>
            /\ get_vstream_names_from_stream_name(LayersInOrder[i].name) = Ok(<<>>)

\* the fused name of a defused-NMS fragment is resolved back to the fragment
C25_DefusedWitness ==
    /\ ~hailo_net_flow
    /\ ret.op = "get_stream_names_from_vstream_name"
    /\ ret.vstream_name = "f"
    /\ ret.result = Ok(<<"d">>)
    /\ \E i \in 1..Len(LayersInOrder) : LayersInOrder[i].name = "x"

\* C26: every name in a successful result of
\* get_stream_names_from_vstream_name(v), in both net-flow modes, is the name
\* of a boundary layer of a dynamic context, and get_layer_info_by_stream_name
\* and get_vstream_names_from_stream_name succeed on it.
C26_ReturnedStreamNamesResolve ==
    (ret.op = "get_stream_names_from_vstream_name"
         /\ ret.result.status = "HAILO_SUCCESS") =>
        \A k \in 1..Len(ret.result.value) :
            /\ SomeLayerNamed(ret.result.value[k])
            /\ get_layer_info_by_stream_name(ret.result.value[k]).status
                   = "HAILO_SUCCESS"
            /\ get_vstream_names_from_stream_name(ret.result.value[k]).status
                   = "HAILO_SUCCESS"

\* with net flow on, a demux name resolves to the mux layer and to a plain
\* output layer of another name
C26_Witness ==
    /\ hailo_net_flow
    /\ ret.op = "get_stream_names_from_vstream_name"
    /\ ret.vstream_name = "a"
    /\ ret.result.status = "HAILO_SUCCESS"
    /\ {"m", "b"} \subseteq Range(ret.result.value)

\* with net flow off, a fused name resolves to a defused-NMS fragment
C26_NetFlowOffWitness ==
    /\ ~hailo_net_flow
    /\ ret.op = "get_stream_names_from_vstream_name"
    /\ ret.vstream_name = "f"
    /\ ret.result = Ok(<<"d">>)

-----------------------------------------------------------------------------
(* SpecFrame: a model is built once (contexts, name tables, per-arch map)   *)
(* and is then only queried: every getter of ContextMetadata, CoreOpMetadata *)
(* and CoreOpMetadataPerArch is called in every order, and no add_* is.      *)

FrameInputLayer ==
    BoundaryLayer("a", "HAILO_H2D_STREAM", "n1", FALSE, <<>>, FALSE, <<>>)

FrameOutputLayer ==
    BoundaryLayer("m", "HAILO_D2H_STREAM", "n1", TRUE, <<Leaf("b"), Leaf("a")>>,
                  FALSE, <<>>)

\* a layer whose transfer size cannot be computed
FrameFailingLayer ==
    [BoundaryLayer("b", "HAILO_D2H_STREAM", "n2", FALSE, <<>>, FALSE, <<>>)
        EXCEPT !.transfer_size = Err("HAILO_INVALID_OPERATION")]

FrameContext ==
    ctx_record_config_write(
        ctx_add_boundary_layer(
            ctx_add_boundary_layer(EmptyContext, FrameInputLayer),
            FrameOutputLayer),
        0, 3)

FrameFailingContext ==
    ctx_add_boundary_layer(EmptyContext, FrameFailingLayer)

\* the preliminary contexts a model is built with
FramePreliminaryContexts ==
    {EmptyContext,
     [ctx_add_boundary_layer(EmptyContext, FrameInputLayer)
         EXCEPT !.m_actions = <<[type |-> "Type_A", id |-> "a1"]>>]}

\* the lists of dynamic contexts a model is built with
FrameDynamicContexts ==
    {<<>>, <<FrameContext>>, <<FrameContext, FrameFailingContext>>}

\* the add_metadata calls a per-arch map is built with
FrameAddLogs ==
    {<<>>,
     <<[bitmap |-> 3, metadata |-> "meta1"]>>,
     <<[bitmap |-> 7, metadata |-> "meta1"], [bitmap |-> 3, metadata |-> "meta2"],
       [bitmap |-> 7, metadata |-> "meta3"]>>}

RECURSIVE MapAfter(_, _, _)
\* the per-arch map after the add_metadata calls log[i..]
MapAfter(log, i, map) ==
    IF i > Len(log) THEN map
    ELSE MapAfter(log, i + 1, map_assign(map, log[i].bitmap, log[i].metadata))

InitFrame ==
    /\ info = NoLayer
    /\ m_preliminary_context \in FramePreliminaryContexts
    /\ m_dynamic_contexts \in FrameDynamicContexts
    /\ m_sorted_output_names = <<"b", "a">>
    /\ m_sorted_network_names = << <<"x">>, <<"x", "y">> >>
    /\ hailo_net_flow \in BOOLEAN
    /\ m_output_vstreams_infos \in
          IF hailo_net_flow THEN PreResolvedOutputVstreams ELSE {<<>>}
    /\ add_log \in FrameAddLogs
    /\ m_metadata_per_arch = MapAfter(add_log, 1, <<>>)
    /\ ret = NoCall

NextFrame ==
    \/ \/ CallGetActionsOfType
    \/ CallGetContextTransferSize
    \/ CallGetContextsCount
    \/ CallGetTotalTransferSize
    \/ CallGetInputLayerInfos
    \/ CallGetOutputLayerInfos
    \/ CallGetAllLayerInfos
    \/ CallGetInputLayerInfosOfNetwork
    \/ CallGetOutputLayerInfosOfNetwork
    \/ CallGetAllLayerInfosOfNetwork
    \/ CallGetLayerInfoByStreamName
    \/ CallGetAllStreamInfos
    \/ CallGetInputVstreamInfos
    \/ CallGetOutputVstreamInfos
    \/ CallGetAllVstreamInfos
    \/ CallGetVstreamNamesFromStreamName
    \/ CallGetStreamNamesFromVstreamName
    \/ CallGetNetworkInfos
    \/ get_metadata

SpecFrame == InitFrame /\ [][NextFrame]_vars

\* C23: every query, succeeding or failing, leaves the model unchanged: the
\* contexts, the name tables, the feature flag, the pre-resolved vstreams
\* and the keys and values of the per-arch map are after the call what they
\* were before it, also for get_contexts_count, get_total_transfer_size and
\* get_metadata (hit, miss and sentinel).
C23_QueriesLeaveModelUnchanged ==
    [][UNCHANGED <<muxVars, coreVars, archVars>>]_vars

\* get_metadata has missed on a map that holds other keys, in a model with
\* two dynamic contexts
C23_Witness ==
    /\ ret.op = "get_metadata"
    /\ ret.status = "HAILO_INTERNAL_FAILURE"
    /\ DOMAIN m_metadata_per_arch = {3, 7}
    /\ ret.bitmap \notin DOMAIN m_metadata_per_arch
    /\ Len(m_dynamic_contexts) = 2

\* get_metadata has hit, and has answered the sentinel from a non-empty map
C23_HitWitness ==
    /\ ret.op = "get_metadata"
    /\ ret.status = "HAILO_SUCCESS"
    /\ ret.bitmap \in {7, PARTIAL_CLUSTERS_LAYOUT_IGNORE}
    /\ ret.val = m_metadata_per_arch[3] \/ ret.val = m_metadata_per_arch[7]
    /\ DOMAIN m_metadata_per_arch = {3, 7}

\* get_total_transfer_size has failed on the second dynamic context
C23_FailedSizeWitness ==
    /\ ret.op = "get_total_transfer_size"
    /\ ret.result = Err("HAILO_INVALID_OPERATION")
    /\ m_dynamic_contexts = <<FrameContext, FrameFailingContext>>

====
